---- MODULE Spec2Model ----
(***************************************************************************)
(* The memory store of mybrain: the lock manager (withMemvidLock), the     *)
(* store lifecycle (Mind.open, pruneBackups) and the lock-wrapped store    *)
(* operations (remember, search, stats), run by independent processes on   *)
(* one file system.                                                        *)
(*                                                                         *)
(* A memory file lives in the directory its path resolves to; the model    *)
(* names a memory file, its lock sidecar and its backups by that           *)
(* directory.  The storage engine (@memvid/sdk) and proper-lockfile are    *)
(* external: they are modelled at the calls the source makes to them.      *)
(***************************************************************************)
EXTENDS Integers, Sequences, FiniteSets, TLC

\* ---------------------------------------------------------------- bounds
Procs == {"p1", "p2"}
Dirs == {"proj", "sub"}
\* LOCK_OPTIONS.retries.retries is 1000 in the source; the model scales it.
MaxRetries == 1
\* store operations issued in a run, all processes together
MaxOps == 4
\* store operations issued in a run in which calls wait for the lock
MaxContending == 3
\* calls of Mind.open in a run with a damaged file system
MaxOpens == 2
\* the largest value Date.now() returns
MaxTime == 4
\* times the environment damages a memory file (garbage bytes, oversize)
MaxDamage == 1
\* times readdirSync or unlinkSync fails in pruneBackups
MaxFaults == 1
\* calls of Mind.open that getMind makes in a run
MaxCalls == 3
\* words in a tool output given to the classifier
MaxWords == 2
\* observations in the timeline getContext reads
MaxTimeline == 3
\* lines of a Bash output that are spelled out (more lines may follow)
MaxBashLines == 3
\* handler and hook calls in a run of the OpenCode adapter
MaxEvents == 3

\* ------------------------------------------------------ program constants
\* pruneBackups(memoryPath, 3)
keepCount == 3

NoProc == "none"
\* the holder of a lock whose process died and whose lock file has not been
\* refreshed for LOCK_OPTIONS.stale (30 s)
Stale == "stale"
Unset == "unset"

VARIABLES
    env,        \* per process: cwd, CLAUDE_PROJECT_DIR, config.memoryPath kind
    lock,       \* per directory: the process holding <dir>/.claude/mind.mv2.lock
    file,       \* per directory: the memory file <dir>/.claude/mind.mv2
    backups,    \* per directory: backup timestamp -> content of mind.mv2.backup-<ts>
    now,        \* the last value Date.now() returned
    nextIno,    \* the next fresh file identity
    pc,         \* per process: position in the current operation
    op,         \* per process: the operation in progress
    retries,    \* per process: retries lockfile.lock has used in this call
    memvid,     \* per process: the local `memvid` of Mind.open (engine handle)
    mind,       \* per process: engine handle of the Mind it holds (0: none)
    cur,        \* per process: the observation remember built
    buf,        \* per process: the frames the engine read at the start of put
    victims,    \* per process: the backups pruneBackups still has to unlink
    pend,       \* per process: how the critical section ended ("ok" / "throw")
    call,       \* per process: what the current call has done so far
    err,        \* per process: how the last finished operation settled
    opsBegun,   \* store operations begun so far (the last one's number)
    damage,     \* damage events so far
    allBackups, \* per directory: every backup timestamp ever created
    done,       \* observations whose remember returned
    faults,     \* failures of readdirSync / unlinkSync in pruneBackups so far
    mindInstance, \* the module-level singleton of getMind (0: null)
    gm,         \* per getMind call of one process: position and handle received
    opened,     \* handles Mind.open has produced for getMind, in order
    arg,        \* the arguments of the function call under study
    ret         \* what that call returned (kind "none": not called yet)

procVars == <<pc, op, retries, memvid, mind, cur, buf, victims, pend>>
histVars == <<call, err, opsBegun, damage, allBackups, done, faults>>
fsVars == <<lock, file, backups, now, nextIno>>
appVars == <<mindInstance, gm, opened, arg, ret>>
vars == <<env, fsVars, procVars, histVars, appVars>>

\* ------------------------------------------------------------- file system
NoFile == [ino |-> 0, good |-> FALSE, big |-> FALSE, frames |-> <<>>]
Fresh(i) == [ino |-> i, good |-> TRUE, big |-> FALSE, frames |-> <<>>]
Garbage == [ino |-> 0, good |-> FALSE, big |-> FALSE, frames |-> <<>>]
existsSyncNever(d) == FALSE
existsSync(d) == file[d].ino # 0

NoObs == [by |-> NoProc, n |-> 0, timestamp |-> 0]

\* ------------------------------------------------------------ environments
\* cwd: process.cwd(); projectDirEnv: process.env.CLAUDE_PROJECT_DIR;
\* absolute: config.memoryPath is an absolute path (it then names the file
\* of directory "proj", as OpenCodeBrain's resolve(projectDir, ...) does).
Envs ==
    { [cwd |-> "proj", projectDirEnv |-> Unset, absolute |-> FALSE],
      [cwd |-> "sub", projectDirEnv |-> "proj", absolute |-> FALSE],
      [cwd |-> "sub", projectDirEnv |-> "proj", absolute |-> TRUE] }

\* Mind.open: resolve(process.env.CLAUDE_PROJECT_DIR || process.cwd(), config.memoryPath)
OpenPath(p) ==
    IF env[p].absolute THEN "proj"
    ELSE IF env[p].projectDirEnv # Unset THEN env[p].projectDirEnv
    ELSE env[p].cwd

\* Mind.getMemoryPath: resolve(process.cwd(), this.config.memoryPath)
getMemoryPath(p) ==
    IF env[p].absolute THEN "proj" ELSE env[p].cwd

\* the lock file a call of withMemvidLock uses: `${memoryPath}.lock`
LockPath(p) ==
    IF op[p] = "open" THEN OpenPath(p) ELSE getMemoryPath(p)

\* ------------------------------------------------------------------- clock
\* Date.now(): never decreases; two reads may fall in the same millisecond.
DateNow == {t \in {now, now + 1} : t <= MaxTime}

\* What a call has done: runs: times fn() was called; recov: the recovery path
\* Mind.open took; renamed: renameSync succeeded; used: use() was called;
\* mutated: the call created, wrote, renamed or unlinked a memory file;
\* puts: calls of this.memvid.put that returned; frameId: what the last one
\* returned; result: what the operation returned to its caller (0: nothing);
\* locks: calls of lockfile.lock the operation has made; nested: those of
\* them made while the process held that lock; unlinked: unlinkSync of the
\* memory file succeeded; existed: create was called while a file was at the
\* memory path; oldestMemory, newestMemory: those fields of what stats
\* returned.
NewCall == [runs |-> 0, recov |-> "none", renamed |-> FALSE, used |-> FALSE,
            mutated |-> FALSE, puts |-> 0, frameId |-> 0, result |-> 0,
            locks |-> 0, nested |-> 0, unlinked |-> FALSE, existed |-> FALSE,
            oldestMemory |-> 0, newestMemory |-> 0]

\* The store operations.  Ops: those of the runs that study the lock and the
\* recovery; AllOps: every operation of a Mind.
Ops == {"open", "remember", "search"}
AllOps == {"open", "remember", "search", "ask", "getContext", "stats", "saveSessionSummary"}

\* The operations whose locked section calls the engine's read functions
\* only (find; ask; timeline and find; stats and timeline), and those whose
\* locked section calls this.memvid.put.
ReadOps == {"search", "ask", "getContext", "stats"}
\* (variant: the locked section of stats may call put)
WriteOpsWithStats == {"remember", "saveSessionSummary", "stats"}
WriteOps == {"remember", "saveSessionSummary"}

Seed == [t \in 1..keepCount |-> Garbage]
Empty == [t \in {} |-> Garbage]

StoreInit ==
    /\ env \in [Procs -> Envs]
    /\ lock = [d \in Dirs |-> NoProc]
    /\ \E seeded \in BOOLEAN :
        /\ file = [d \in Dirs |-> IF seeded /\ d = "proj" THEN Fresh(1) ELSE NoFile]
        /\ backups = [d \in Dirs |-> IF seeded /\ d = "proj" THEN Seed ELSE Empty]
        /\ allBackups = [d \in Dirs |-> IF seeded /\ d = "proj" THEN 1..keepCount ELSE {}]
        /\ now = IF seeded THEN keepCount ELSE 0
        /\ nextIno = IF seeded THEN 2 ELSE 1
    /\ pc = [p \in Procs |-> "idle"]
    /\ op = [p \in Procs |-> "none"]
    /\ retries = [p \in Procs |-> 0]
    /\ memvid = [p \in Procs |-> 0]
    /\ mind = [p \in Procs |-> 0]
    /\ cur = [p \in Procs |-> NoObs]
    /\ buf = [p \in Procs |-> <<>>]
    /\ victims = [p \in Procs |-> <<>>]
    /\ pend = [p \in Procs |-> "ok"]
    /\ call = [p \in Procs |-> NewCall]
    /\ err = [p \in Procs |-> "none"]
    /\ opsBegun = 0
    /\ damage = 0
    /\ done = {}
    /\ faults = 0

\* The adapter side at rest: no getMind call has been made and no function
\* call is under study.
Calls == {"c1", "c2", "c3"}
NoCall == [pc |-> "idle", got |-> 0, dir |-> "none"]
AppIdle ==
    /\ mindInstance = 0
    /\ gm = [c \in Calls |-> NoCall]
    /\ opened = <<>>
    /\ arg = [kind |-> "none"]
    /\ ret = [kind |-> "none"]

Init == StoreInit /\ AppIdle

\* The store at rest for the runs that study the adapter side: no memory
\* file yet, every process in the project directory.
StoreIdle ==
    /\ StoreInit
    /\ \A d \in Dirs : file[d] = NoFile
    /\ \A p \in Procs : env[p] = [cwd |-> "proj", projectDirEnv |-> Unset, absolute |-> FALSE]

\* ------------------------------------------------------------ lock manager
\* lockfile.lock(lockPath, LOCK_OPTIONS) can take the lock of directory l:
\* nobody holds it, or it is stale (stale: 3e4) and is removed and taken.
AcquirableNeverStale(l) == lock[l] = NoProc
Acquirable(l) == lock[l] = NoProc \/ lock[l] = Stale

\* A store operation starts: remember builds its observation, with
\* `timestamp: Date.now()` (t: what Date.now() returns), before it asks
\* for the lock; withMemvidLock creates the lock file's directory and the
\* lock file and calls lockfile.lock, whose first attempt either takes the
\* lock (fn() is then called) or finds it held.  (saveSessionSummary passes
\* its own Date.now() in the metadata of its frame.)
BeginAt(p, o, t) ==
    LET l == IF o = "open" THEN OpenPath(p) ELSE getMemoryPath(p) IN
    /\ pc[p] = "idle"
    /\ now' = IF o \in {"remember", "saveSessionSummary"} THEN t ELSE now
    /\ opsBegun < MaxOps
    /\ o # "open" => mind[p] # 0
    /\ opsBegun' = opsBegun + 1
    /\ op' = [op EXCEPT ![p] = o]
    /\ retries' = [retries EXCEPT ![p] = 0]
    /\ pend' = [pend EXCEPT ![p] = "ok"]
    /\ cur' = [cur EXCEPT ![p] = IF o \in {"remember", "saveSessionSummary"}
                                 THEN [by |-> p, n |-> opsBegun + 1, timestamp |-> t]
                                 ELSE NoObs]
    /\ IF Acquirable(l)
       THEN /\ lock' = [lock EXCEPT ![l] = p]
            /\ pc' = [pc EXCEPT ![p] = "cs"]
            /\ call' = [call EXCEPT ![p] = [NewCall EXCEPT !.runs = 1, !.locks = 1]]
       ELSE /\ pc' = [pc EXCEPT ![p] = "lock"]
            /\ call' = [call EXCEPT ![p] = [NewCall EXCEPT !.locks = 1]]
            /\ UNCHANGED lock
    /\ UNCHANGED <<appVars, env, file, backups, nextIno, memvid, mind, buf, victims>>
    /\ UNCHANGED <<err, damage, allBackups, done, faults>>

\* A store operation starts within the millisecond of the last reading of
\* the clock.
Begin(p, o) == BeginAt(p, o, now)

\* A later attempt of lockfile.lock finds the lock free; fn() is then called.
LockAcquire(p) ==
    /\ pc[p] = "lock"
    /\ Acquirable(LockPath(p))
    /\ lock' = [lock EXCEPT ![LockPath(p)] = p]
    /\ pc' = [pc EXCEPT ![p] = "cs"]
    /\ call' = [call EXCEPT ![p].runs = @ + 1]
    /\ UNCHANGED <<appVars, env, file, backups, now, nextIno>>
    /\ UNCHANGED <<op, retries, memvid, mind, cur, buf, victims, pend>>
    /\ UNCHANGED <<err, opsBegun, damage, allBackups, done, faults>>

\* lockfile.lock finds the lock held and retries are left.
LockRetry(p) ==
    /\ pc[p] = "lock"
    /\ ~Acquirable(LockPath(p))
    /\ retries[p] < MaxRetries
    /\ retries' = [retries EXCEPT ![p] = @ + 1]
    /\ UNCHANGED <<appVars, env, fsVars, histVars>>
    /\ UNCHANGED <<pc, op, memvid, mind, cur, buf, victims, pend>>

\* (variant: with no retry left the call goes on waiting)
LockTimeoutNever(p) ==
    /\ pc[p] = "lock"
    /\ ~Acquirable(LockPath(p))
    /\ retries[p] = MaxRetries
    /\ UNCHANGED vars

\* (variant: with no retry left fn() is called without the lock)
LockTimeoutProceeds(p) ==
    /\ pc[p] = "lock"
    /\ ~Acquirable(LockPath(p))
    /\ retries[p] = MaxRetries
    /\ pc' = [pc EXCEPT ![p] = "cs"]
    /\ call' = [call EXCEPT ![p].runs = @ + 1]
    /\ UNCHANGED <<appVars, env, fsVars>>
    /\ UNCHANGED <<op, retries, memvid, mind, cur, buf, victims, pend>>
    /\ UNCHANGED <<err, opsBegun, damage, allBackups, done, faults>>

\* lockfile.lock finds the lock held and no retry is left: it rejects
\* (ELOCKED), withMemvidLock rejects, and the operation rejects.
LockTimeout(p) ==
    /\ pc[p] = "lock"
    /\ ~Acquirable(LockPath(p))
    /\ retries[p] = MaxRetries
    /\ pc' = [pc EXCEPT ![p] = "idle"]
    /\ err' = [err EXCEPT ![p] = "LockTimeout"]
    /\ UNCHANGED <<appVars, env, fsVars>>
    /\ UNCHANGED <<op, retries, memvid, mind, cur, buf, victims, pend>>
    /\ UNCHANGED <<call, opsBegun, damage, allBackups, done, faults>>

\* ------------------------------------------------------------------ engine
\* The file an engine handle h of directory d reads and writes: the handle
\* stays with the file it opened when that file is renamed to a backup.
HandleAt(d, h) ==
    IF h # 0 /\ file[d].ino = h THEN "file"
    ELSE IF h # 0 /\ \E t \in DOMAIN backups[d] : backups[d][t].ino = h THEN "backup"
    ELSE "gone"

HandleBackup(d, h) == CHOOSE t \in DOMAIN backups[d] : backups[d][t].ino = h

HandleContent(d, h) ==
    IF HandleAt(d, h) = "file" THEN file[d]
    ELSE IF HandleAt(d, h) = "backup" THEN backups[d][HandleBackup(d, h)]
    ELSE NoFile

\* create(memoryPath, "basic"): an empty store at the path; a file that is
\* still there is overwritten in place.
create(d) ==
    IF existsSync(d) THEN Fresh(file[d].ino) ELSE Fresh(nextIno)

\* create(memoryPath, "basic") when file f is at the path (NoFile: none)
createAt(f) == IF f.ino # 0 THEN Fresh(f.ino) ELSE Fresh(nextIno)

\* What a recovery leaves at the memory path before it calls create:
\* nothing when renameSync or unlinkSync succeeded, the old file when the
\* attempts failed (`catch {}`).
\* (variant: the old file stays at the path also when it was backed up)
leftBehindAlways(d, how) == file[d]
leftBehind(d, how) == IF how \in {"rename", "unlink"} THEN NoFile ELSE file[d]

\* statSync(memoryPath).size / (1024 * 1024) > MAX_FILE_SIZE_MB
TooLargeNever(d) == FALSE
TooLarge(d) == file[d].big

\* renameSync(memoryPath, backupPath): the directory's backups afterwards.
renameSyncAfterCreate(d, t) ==
    [x \in DOMAIN backups[d] \cup {t} |-> IF x = t THEN create(d) ELSE backups[d][x]]
renameSync(d, t) ==
    [x \in DOMAIN backups[d] \cup {t} |-> IF x = t THEN file[d] ELSE backups[d][x]]

\* ------------------------------------------------- Mind.open, locked section
\* !existsSync(memoryPath): create and return.
OpenCreate(p) ==
    LET d == OpenPath(p) IN
    /\ pc[p] = "cs" /\ op[p] = "open"
    /\ ~existsSync(d)
    /\ file' = [file EXCEPT ![d] = create(d)]
    /\ nextIno' = nextIno + 1
    /\ memvid' = [memvid EXCEPT ![p] = create(d).ino]
    /\ call' = [call EXCEPT ![p].mutated = TRUE]
    /\ pc' = [pc EXCEPT ![p] = "release"]
    /\ UNCHANGED <<appVars, env, lock, backups, now>>
    /\ UNCHANGED <<op, retries, mind, cur, buf, victims, pend>>
    /\ UNCHANGED <<err, opsBegun, damage, allBackups, done, faults>>

\* fileSizeMB > MAX_FILE_SIZE_MB: rename to a backup (a failure is ignored),
\* create, return.
OpenOversize(p) ==
    LET d == OpenPath(p) IN
    /\ pc[p] = "cs" /\ op[p] = "open"
    /\ existsSync(d) /\ TooLarge(d)
    /\ \E t \in DateNow, renamed \in BOOLEAN :
        LET left == leftBehind(d, IF renamed THEN "rename" ELSE "neither") IN
        /\ now' = t
        /\ IF renamed
           THEN /\ backups' = [backups EXCEPT ![d] = renameSync(d, t)]
                /\ allBackups' = [allBackups EXCEPT ![d] = @ \cup {t}]
           ELSE UNCHANGED <<backups, allBackups>>
        /\ file' = [file EXCEPT ![d] = createAt(left)]
        /\ memvid' = [memvid EXCEPT ![p] = createAt(left).ino]
        /\ nextIno' = IF left.ino # 0 THEN nextIno ELSE nextIno + 1
        /\ call' = [call EXCEPT ![p].recov = "oversize", ![p].renamed = renamed,
                                ![p].mutated = TRUE, ![p].existed = (left.ino # 0)]
    /\ pc' = [pc EXCEPT ![p] = "release"]
    /\ UNCHANGED <<appVars, env, lock>>
    /\ UNCHANGED <<op, retries, mind, cur, buf, victims, pend>>
    /\ UNCHANGED <<err, opsBegun, damage, done, faults>>

\* use("basic", memoryPath) succeeds.
OpenUse(p) ==
    LET d == OpenPath(p) IN
    /\ pc[p] = "cs" /\ op[p] = "open"
    /\ existsSync(d) /\ ~TooLarge(d)
    /\ file[d].good
    /\ memvid' = [memvid EXCEPT ![p] = file[d].ino]
    /\ call' = [call EXCEPT ![p].used = TRUE]
    /\ pc' = [pc EXCEPT ![p] = "release"]
    /\ UNCHANGED <<appVars, env, fsVars>>
    /\ UNCHANGED <<op, retries, mind, cur, buf, victims, pend>>
    /\ UNCHANGED <<err, opsBegun, damage, allBackups, done, faults>>

\* use() throws an error whose message matches no corruption signature:
\* `throw openError`.
OpenUseThrow(p) ==
    LET d == OpenPath(p) IN
    /\ pc[p] = "cs" /\ op[p] = "open"
    /\ existsSync(d) /\ ~TooLarge(d)
    /\ call' = [call EXCEPT ![p].used = TRUE]
    /\ pend' = [pend EXCEPT ![p] = "throw"]
    /\ pc' = [pc EXCEPT ![p] = "release"]
    /\ UNCHANGED <<appVars, env, fsVars>>
    /\ UNCHANGED <<op, retries, memvid, mind, cur, buf, victims>>
    /\ UNCHANGED <<err, opsBegun, damage, allBackups, done, faults>>

\* use() throws an error whose message matches a corruption signature:
\* rename to a backup; if that fails unlink; if that fails too go on; create.
OpenCorrupt(p) ==
    LET d == OpenPath(p) IN
    /\ pc[p] = "cs" /\ op[p] = "open"
    /\ existsSync(d) /\ ~TooLarge(d)
    /\ ~file[d].good
    /\ \E t \in DateNow, how \in {"rename", "unlink", "neither"} :
        LET left == leftBehind(d, how) IN
        /\ now' = t
        /\ IF how = "rename"
           THEN /\ backups' = [backups EXCEPT ![d] = renameSync(d, t)]
                /\ allBackups' = [allBackups EXCEPT ![d] = @ \cup {t}]
           ELSE UNCHANGED <<backups, allBackups>>
        /\ file' = [file EXCEPT ![d] = createAt(left)]
        /\ memvid' = [memvid EXCEPT ![p] = createAt(left).ino]
        /\ nextIno' = IF left.ino # 0 THEN nextIno ELSE nextIno + 1
        /\ call' = [call EXCEPT ![p].recov = "corrupt",
                                ![p].renamed = (how = "rename"),
                                ![p].unlinked = (how = "unlink"),
                                ![p].used = TRUE,
                                ![p].mutated = TRUE,
                                ![p].existed = (left.ino # 0)]
    /\ pc' = [pc EXCEPT ![p] = "release"]
    /\ UNCHANGED <<appVars, env, lock>>
    /\ UNCHANGED <<op, retries, mind, cur, buf, victims, pend>>
    /\ UNCHANGED <<err, opsBegun, damage, done, faults>>

\* -------------------------------------------- remember / search / stats
\* this.memvid.put(...) starts: the engine reads the store it will append to.
PutBegin(p) ==
    LET d == OpenPath(p) IN
    /\ pc[p] = "cs" /\ op[p] \in WriteOps
    /\ IF HandleAt(d, mind[p]) # "gone" /\ ~HandleContent(d, mind[p]).good
       THEN /\ pend' = [pend EXCEPT ![p] = "throw"]
            /\ pc' = [pc EXCEPT ![p] = "release"]
            /\ UNCHANGED buf
       ELSE /\ buf' = [buf EXCEPT ![p] = HandleContent(d, mind[p]).frames]
            /\ pc' = [pc EXCEPT ![p] = "put"]
            /\ UNCHANGED pend
    /\ UNCHANGED <<appVars, env, fsVars, histVars>>
    /\ UNCHANGED <<op, retries, memvid, mind, cur, victims>>

\* this.memvid.put(...) ends: the store holds what the engine read plus the
\* new frame.
PutEnd(p) ==
    LET d == OpenPath(p)
        at == HandleAt(d, mind[p])
        frames == Append(buf[p], cur[p])
    IN
    /\ pc[p] = "put"
    /\ file' = IF at = "file" THEN [file EXCEPT ![d].frames = frames] ELSE file
    /\ backups' = IF at = "backup"
                  THEN [backups EXCEPT ![d][HandleBackup(d, mind[p])].frames = frames]
                  ELSE backups
    /\ buf' = [buf EXCEPT ![p] = <<>>]
    /\ call' = [call EXCEPT ![p].mutated = (at # "gone"),
                            ![p].puts = @ + 1,
                            ![p].frameId = Len(frames)]
    /\ pc' = [pc EXCEPT ![p] = "release"]
    /\ UNCHANGED <<appVars, env, lock, now, nextIno>>
    /\ UNCHANGED <<err, opsBegun, damage, allBackups, done, faults>>
    /\ UNCHANGED <<op, retries, memvid, mind, cur, victims, pend>>

\* getContext(query): the search it runs inside its locked section
\* (variant: the locked search)
getContextSearchLocked == "search"
getContextSearch == "searchUnlocked"

\* this.memvid.timeline({ limit: 1, reverse }): the engine lists the frames
\* in the order they were committed, or in the reverse of it.
RECURSIVE Reverse(_)
Reverse(q) == IF q = <<>> THEN <<>> ELSE Append(Reverse(Tail(q)), Head(q))
timelineOf(frames, reverse) ==
    LET all == IF reverse THEN Reverse(frames) ELSE frames
    IN SubSeq(all, 1, IF Len(all) < 1 THEN Len(all) ELSE 1)

\* stats: oldestFrames[0]?.metadata?.timestamp || oldestFrames[0]?.timestamp || 0
\* (a frame remember stored carries metadata.timestamp, a positive number)
firstTimestamp(frames) == IF frames = <<>> THEN 0 ELSE frames[1].timestamp

\* search: this.memvid.find(query, ...); ask: this.memvid.ask(...); stats:
\* this.memvid.stats() and this.memvid.timeline(...); getContext(query):
\* this.memvid.timeline(...), then the search.  The engine throws on a store
\* it cannot read.  A search that goes through withLock calls lockfile.lock
\* on the lock the process holds: it finds it held at every retry and
\* rejects.
Read(p) ==
    LET d == OpenPath(p)
        unreadable == HandleAt(d, mind[p]) # "gone" /\ ~HandleContent(d, mind[p]).good
        relock == ~unreadable /\ op[p] = "getContext" /\ getContextSearch = "search"
    IN
    /\ pc[p] = "cs" /\ op[p] \in ReadOps
    /\ pend' = [pend EXCEPT ![p] =
                  IF unreadable \/ (relock /\ ~Acquirable(LockPath(p)))
                  THEN "throw" ELSE "ok"]
    /\ call' = IF relock
               THEN [call EXCEPT ![p].locks = @ + 1,
                                 ![p].nested = @ + (IF lock[LockPath(p)] = p THEN 1 ELSE 0)]
               ELSE IF op[p] = "stats" /\ ~unreadable
               THEN [call EXCEPT ![p].oldestMemory =
                                     firstTimestamp(timelineOf(HandleContent(d, mind[p]).frames, FALSE)),
                                 ![p].newestMemory =
                                     firstTimestamp(timelineOf(HandleContent(d, mind[p]).frames, TRUE))]
               ELSE call
    /\ pc' = [pc EXCEPT ![p] = "release"]
    /\ UNCHANGED <<appVars, env, fsVars>>
    /\ UNCHANGED <<err, opsBegun, damage, allBackups, done, faults>>
    /\ UNCHANGED <<op, retries, memvid, mind, cur, buf, victims>>

\* ------------------------------------------------- withMemvidLock, finally
\* remember: `return frameId`, the value withLock resolved with (what
\* this.memvid.put returned); saveSessionSummary returns it likewise.
settle(p) ==
    [call EXCEPT ![p].result =
        IF op[p] \in {"remember", "saveSessionSummary"} /\ pend[p] = "ok"
        THEN call[p].frameId ELSE 0]

\* `finally { await release(); }`
releaseUnlessThrown(p) ==
    IF pend[p] = "throw" THEN lock ELSE [lock EXCEPT ![LockPath(p)] = NoProc]
release(p) == [lock EXCEPT ![LockPath(p)] = NoProc]

\* (variant: the retry loop wraps the critical section, so a critical section
\* that threw is entered again while retries are left)
ReleaseRetryOnThrow(p) ==
    /\ pc[p] = "release"
    /\ lock' = release(p)
    /\ IF pend[p] = "throw" /\ retries[p] < MaxRetries
       THEN /\ pc' = [pc EXCEPT ![p] = "lock"]
            /\ retries' = [retries EXCEPT ![p] = @ + 1]
            /\ pend' = [pend EXCEPT ![p] = "ok"]
            /\ UNCHANGED <<err, done>>
       ELSE /\ UNCHANGED <<retries, pend>>
            /\ IF op[p] = "open" /\ pend[p] = "ok"
               THEN /\ pc' = [pc EXCEPT ![p] = "prune"]
                    /\ UNCHANGED <<err, done>>
               ELSE /\ pc' = [pc EXCEPT ![p] = "idle"]
                    /\ err' = [err EXCEPT ![p] = IF pend[p] = "ok" THEN "ok" ELSE "EngineError"]
                    /\ done' = IF op[p] = "remember" /\ pend[p] = "ok"
                               THEN done \cup {cur[p]} ELSE done
    /\ UNCHANGED <<appVars, env, file, backups, now, nextIno>>
    /\ UNCHANGED <<op, memvid, mind, cur, buf, victims>>
    /\ call' = settle(p)
    /\ UNCHANGED <<opsBegun, damage, allBackups, faults>>

\* (variant: Mind.open goes on to pruneBackups and returns a Mind also when
\* its locked section threw)
ReleaseSwallowsThrow(p) ==
    /\ pc[p] = "release"
    /\ lock' = release(p)
    /\ IF op[p] = "open"
       THEN /\ pc' = [pc EXCEPT ![p] = "prune"]
            /\ UNCHANGED <<err, done>>
       ELSE /\ pc' = [pc EXCEPT ![p] = "idle"]
            /\ err' = [err EXCEPT ![p] = IF pend[p] = "ok" THEN "ok" ELSE "EngineError"]
            /\ done' = IF op[p] = "remember" /\ pend[p] = "ok"
                       THEN done \cup {cur[p]} ELSE done
    /\ UNCHANGED <<appVars, env, file, backups, now, nextIno>>
    /\ UNCHANGED <<op, retries, memvid, mind, cur, buf, victims, pend>>
    /\ call' = settle(p)
    /\ UNCHANGED <<opsBegun, damage, allBackups, faults>>

\* The lock is released and withMemvidLock settles: Mind.open goes on to
\* pruneBackups or rejects; the other operations return or reject.
Release(p) ==
    /\ pc[p] = "release"
    /\ lock' = release(p)
    /\ IF op[p] = "open" /\ pend[p] = "ok"
       THEN /\ pc' = [pc EXCEPT ![p] = "prune"]
            /\ UNCHANGED <<err, done>>
       ELSE /\ pc' = [pc EXCEPT ![p] = "idle"]
            /\ err' = [err EXCEPT ![p] = IF pend[p] = "ok" THEN "ok" ELSE "EngineError"]
            /\ done' = IF op[p] = "remember" /\ pend[p] = "ok"
                       THEN done \cup {cur[p]} ELSE done
    /\ UNCHANGED <<appVars, env, file, backups, now, nextIno>>
    /\ UNCHANGED <<op, retries, memvid, mind, cur, buf, victims, pend>>
    /\ call' = settle(p)
    /\ UNCHANGED <<opsBegun, damage, allBackups, faults>>

\* ------------------------------------------------------------ pruneBackups
Max(S) == CHOOSE x \in S : \A y \in S : y <= x
Min(S) == CHOOSE x \in S : \A y \in S : x <= y

\* .sort((a, b) => b.time - a.time): the backups, newest first
RECURSIVE SortDesc(_)
SortDesc(S) == IF S = {} THEN <<>> ELSE <<Max(S)>> \o SortDesc(S \ {Max(S)})
RECURSIVE SortAsc(_)
SortAsc(S) == IF S = {} THEN <<>> ELSE <<Min(S)>> \o SortAsc(S \ {Min(S)})

\* for (let i = keepCount; i < backups.length; i++): the backups to unlink,
\* in the order of the loop
pruneOldestKept(names, keep) ==
    IF Cardinality(names) <= keep THEN <<>>
    ELSE SubSeq(SortAsc(names), keep + 1, Cardinality(names))
pruneBackups(names, keep) ==
    IF Cardinality(names) <= keep THEN <<>>
    ELSE SubSeq(SortDesc(names), keep + 1, Cardinality(names))

\* ---- pruneBackups: the file names
\* A file name is a sequence of characters.  The base names of the runs are
\* made of letters, digits and dots.
DigitChars == <<"0", "1", "2", "3", "4", "5", "6", "7", "8", "9">>
isDigit(c) == \E i \in DOMAIN DigitChars : DigitChars[i] = c
digitValue(c) == (CHOOSE i \in DOMAIN DigitChars : DigitChars[i] = c) - 1

\* parseInt(str, 10) of a string of decimal digits
RECURSIVE parseInt(_)
parseInt(str) ==
    IF str = <<>> THEN 0
    ELSE parseInt(SubSeq(str, 1, Len(str) - 1)) * 10 + digitValue(str[Len(str)])

\* f.split("-").pop(): what follows the last "-"
lastSegment(f) ==
    LET dashes == {i \in DOMAIN f : f[i] = "-"} IN
    IF dashes = {} THEN f ELSE SubSeq(f, Max(dashes) + 1, Len(f))

\* `${memoryPath}.backup-${Date.now()}` and `${memoryPath}.lock`
backupSuffix == <<".", "b", "a", "c", "k", "u", "p", "-">>
lockSuffix == <<".", "l", "o", "c", "k">>

\* new RegExp(`^${baseName.replace(".", "\\.")}\\.backup-\\d+$`), up to the
\* digits: String.prototype.replace with a string pattern replaces the first
\* occurrence, so the first dot of the base name is escaped and stands for
\* itself; every later dot stays a regular-expression dot ("any").
backupPattern(baseName) ==
    LET dots == {i \in DOMAIN baseName : baseName[i] = "."} IN
    [i \in DOMAIN baseName |->
        IF baseName[i] = "." /\ i # Min(dots) THEN "any" ELSE baseName[i]]
    \o backupSuffix

\* backupPattern.test(f): the pattern, then one or more digits, then the end
test(pattern, f) ==
    /\ Len(f) > Len(pattern)
    /\ \A i \in DOMAIN pattern : pattern[i] = "any" \/ pattern[i] = f[i]
    /\ \A i \in (Len(pattern) + 1)..Len(f) : isDigit(f[i])

\* .sort((a, b) => b.time - a.time) on file names, time: parseInt(...)
RECURSIVE sortByTimeDesc(_)
sortByTimeDesc(fs) ==
    IF fs = {} THEN <<>>
    ELSE LET newest == CHOOSE f \in fs :
                          \A g \in fs : parseInt(lastSegment(g)) <= parseInt(lastSegment(f))
         IN <<newest>> \o sortByTimeDesc(fs \ {newest})

\* pruneBackups(memoryPath, keepCount) on the listing `files` of
\* dirname(memoryPath): the names unlinkSync is called with, in order.
pruneBackupsFiles(baseName, files, keep) ==
    LET matching == {f \in files : test(backupPattern(baseName), f)}
        sorted == sortByTimeDesc(matching)
    IN IF Len(sorted) <= keep THEN <<>> ELSE SubSeq(sorted, keep + 1, Len(sorted))

\* The base names and directory listings of the runs: the memory file, its
\* lock sidecar, its backups of the epochs 1..5, and files of other names.
BaseNames ==
    {<<"m", "i", "n", "d", ".", "m", "v", "2">>,
     <<"m", "i", "n", "d", ".", "v", "2", ".", "m", "v", "2">>}
backupName(baseName, epoch) == baseName \o backupSuffix \o <<DigitChars[epoch + 1]>>
OtherNames(baseName) ==
    {baseName \o backupSuffix,
     backupName(baseName, 3) \o <<".", "t", "m", "p">>,
     <<"m", "i", "n", "d", ".", "v", "2", "-", "m", "v", "2">> \o backupSuffix \o <<"9">>}
Listings(baseName) ==
    {{baseName, baseName \o lockSuffix} \cup bs \cup os :
        bs \in SUBSET {backupName(baseName, e) : e \in 1..5},
        os \in SUBSET OtherNames(baseName)}

\* readdirSync(dir), filter by the backup pattern, sort: the backups to
\* unlink.  A failure of readdirSync is caught and nothing is pruned.
PruneList(p) ==
    LET d == OpenPath(p) IN
    /\ pc[p] = "prune"
    /\ \E ok \in BOOLEAN :
        /\ ~ok => faults < MaxFaults
        /\ faults' = IF ok THEN faults ELSE faults + 1
        /\ victims' = [victims EXCEPT ![p] =
                         IF ok THEN pruneBackups(DOMAIN backups[d], keepCount) ELSE <<>>]
    /\ pc' = [pc EXCEPT ![p] = "unlink"]
    /\ UNCHANGED <<appVars, env, fsVars>>
    /\ UNCHANGED <<op, retries, memvid, mind, cur, buf, pend>>
    /\ UNCHANGED <<call, err, opsBegun, damage, allBackups, done>>

\* unlinkSync(backups[i].path); a failure (the file is gone, or the unlink is
\* refused) is caught and the loop goes on.
PruneUnlink(p) ==
    LET d == OpenPath(p)
        v == Head(victims[p])
    IN
    /\ pc[p] = "unlink"
    /\ victims[p] # <<>>
    /\ \E ok \in BOOLEAN :
        /\ ~ok => faults < MaxFaults /\ v \in DOMAIN backups[d]
        /\ faults' = IF ok THEN faults ELSE faults + 1
        /\ backups' = IF ok
                      THEN [backups EXCEPT ![d] = [t \in DOMAIN @ \ {v} |-> @[t]]]
                      ELSE backups
    /\ victims' = [victims EXCEPT ![p] = Tail(@)]
    /\ UNCHANGED <<appVars, env, lock, file, now, nextIno>>
    /\ UNCHANGED <<pc, op, retries, memvid, mind, cur, buf, pend>>
    /\ UNCHANGED <<call, err, opsBegun, damage, allBackups, done>>

\* pruneBackups is over: Mind.open returns the Mind built on the handle of
\* the locked section.
OpenReturn(p) ==
    /\ pc[p] = "unlink"
    /\ victims[p] = <<>>
    /\ pc' = [pc EXCEPT ![p] = "idle"]
    /\ mind' = [mind EXCEPT ![p] = memvid[p]]
    /\ err' = [err EXCEPT ![p] = "ok"]
    /\ UNCHANGED <<appVars, env, fsVars>>
    /\ UNCHANGED <<op, retries, memvid, cur, buf, victims, pend>>
    /\ UNCHANGED <<call, opsBegun, damage, allBackups, done, faults>>

\* ------------------------------------------------------------- environment
\* The bytes of a memory file are replaced by garbage.
Corrupt(d) ==
    /\ damage < MaxDamage
    /\ existsSync(d) /\ file[d].good
    /\ file' = [file EXCEPT ![d].good = FALSE, ![d].frames = <<>>]
    /\ damage' = damage + 1
    /\ UNCHANGED <<appVars, env, lock, backups, now, nextIno, procVars>>
    /\ UNCHANGED <<call, err, opsBegun, allBackups, done, faults>>

\* A memory file grows beyond 100 MB.
Bloat(d) ==
    /\ damage < MaxDamage
    /\ existsSync(d) /\ ~file[d].big
    /\ file' = [file EXCEPT ![d].big = TRUE]
    /\ damage' = damage + 1
    /\ UNCHANGED <<appVars, env, lock, backups, now, nextIno, procVars>>
    /\ UNCHANGED <<call, err, opsBegun, allBackups, done, faults>>

\* The store operations of a process on a file system nobody damages.
Next ==
    \/ \E p \in Procs, o \in Ops : Begin(p, o)
    \/ \E p \in Procs : LockAcquire(p)
    \/ \E p \in Procs : LockRetry(p)
    \/ \E p \in Procs : LockTimeout(p)
    \/ \E p \in Procs : OpenCreate(p)
    \/ \E p \in Procs : OpenUse(p)
    \/ \E p \in Procs : OpenUseThrow(p)
    \/ \E p \in Procs : PutBegin(p)
    \/ \E p \in Procs : PutEnd(p)
    \/ \E p \in Procs : Read(p)
    \/ \E p \in Procs : Release(p)
    \/ \E p \in Procs : PruneList(p)
    \/ \E p \in Procs : OpenReturn(p)

Spec == Init /\ [][Next]_vars

\* lockfile.lock's retry timers fire: a call that is waiting for the lock
\* makes its next attempt.  Nothing is assumed of the process holding it.
\* (The operations are those of Next, with their own budget.)
ContentionNext ==
    \/ \E p \in Procs, o \in Ops : opsBegun < MaxContending /\ Begin(p, o)
    \/ \E p \in Procs : LockAcquire(p)
    \/ \E p \in Procs : LockRetry(p)
    \/ \E p \in Procs : LockTimeout(p)
    \/ \E p \in Procs : OpenCreate(p)
    \/ \E p \in Procs : OpenUse(p)
    \/ \E p \in Procs : OpenUseThrow(p)
    \/ \E p \in Procs : PutBegin(p)
    \/ \E p \in Procs : PutEnd(p)
    \/ \E p \in Procs : Read(p)
    \/ \E p \in Procs : Release(p)
    \/ \E p \in Procs : PruneList(p)
    \/ \E p \in Procs : OpenReturn(p)

FairSpec ==
    /\ Init /\ [][ContentionNext]_vars
    /\ \A p \in Procs : WF_vars(LockAcquire(p) \/ LockRetry(p) \/ LockTimeout(p))

\* Every operation of a Mind, with calls waiting for the lock.
OperationsNext ==
    \/ \E p \in Procs, o \in AllOps : opsBegun < MaxContending /\ Begin(p, o)
    \/ \E p \in Procs : LockAcquire(p)
    \/ \E p \in Procs : LockRetry(p)
    \/ \E p \in Procs : LockTimeout(p)
    \/ \E p \in Procs : OpenCreate(p)
    \/ \E p \in Procs : OpenUse(p)
    \/ \E p \in Procs : OpenUseThrow(p)
    \/ \E p \in Procs : PutBegin(p)
    \/ \E p \in Procs : PutEnd(p)
    \/ \E p \in Procs : Read(p)
    \/ \E p \in Procs : Release(p)
    \/ \E p \in Procs : PruneList(p)
    \/ \E p \in Procs : OpenReturn(p)

OperationsSpec == Init /\ [][OperationsNext]_vars

\* remember and stats of two processes that have opened the memory file of
\* the project directory, while the clock runs: Date.now() returns the
\* millisecond of its last reading or the next one.
TimestampInit ==
    /\ AppIdle
    /\ env = [p \in Procs |-> [cwd |-> "proj", projectDirEnv |-> Unset, absolute |-> FALSE]]
    /\ lock = [d \in Dirs |-> NoProc]
    /\ file = [d \in Dirs |-> IF d = "proj" THEN Fresh(1) ELSE NoFile]
    /\ backups = [d \in Dirs |-> Empty]
    /\ allBackups = [d \in Dirs |-> {}]
    /\ now = 1
    /\ nextIno = 2
    /\ pc = [p \in Procs |-> "idle"]
    /\ op = [p \in Procs |-> "open"]
    /\ retries = [p \in Procs |-> 0]
    /\ memvid = [p \in Procs |-> 1]
    /\ mind = [p \in Procs |-> 1]
    /\ cur = [p \in Procs |-> NoObs]
    /\ buf = [p \in Procs |-> <<>>]
    /\ victims = [p \in Procs |-> <<>>]
    /\ pend = [p \in Procs |-> "ok"]
    /\ call = [p \in Procs |-> NewCall]
    /\ err = [p \in Procs |-> "ok"]
    /\ opsBegun = 0
    /\ damage = 0
    /\ done = {}
    /\ faults = 0

TimestampNext ==
    \/ \E p \in Procs, o \in {"remember", "stats"}, t \in DateNow : BeginAt(p, o, t)
    \/ \E p \in Procs : LockAcquire(p)
    \/ \E p \in Procs : LockRetry(p)
    \/ \E p \in Procs : LockTimeout(p)
    \/ \E p \in Procs : PutBegin(p)
    \/ \E p \in Procs : PutEnd(p)
    \/ \E p \in Procs : Read(p)
    \/ \E p \in Procs : Release(p)

TimestampSpec == TimestampInit /\ [][TimestampNext]_vars

\* Mind.open and pruneBackups on a file system where memory files get
\* damaged and directory operations can fail; every process resolves the
\* memory path to the same file.
RecoveryInit ==
    /\ Init
    /\ \A p \in Procs : env[p] = [cwd |-> "proj", projectDirEnv |-> Unset, absolute |-> FALSE]

RecoveryNext ==
    \/ \E p \in Procs : opsBegun < MaxOpens /\ Begin(p, "open")
    \/ \E p \in Procs : LockAcquire(p)
    \/ \E p \in Procs : LockRetry(p)
    \/ \E p \in Procs : LockTimeout(p)
    \/ \E p \in Procs : OpenCreate(p)
    \/ \E p \in Procs : OpenOversize(p)
    \/ \E p \in Procs : OpenUse(p)
    \/ \E p \in Procs : OpenUseThrow(p)
    \/ \E p \in Procs : OpenCorrupt(p)
    \/ \E p \in Procs : Release(p)
    \/ \E p \in Procs : PruneList(p)
    \/ \E p \in Procs : PruneUnlink(p)
    \/ \E p \in Procs : OpenReturn(p)
    \/ \E d \in Dirs : Corrupt(d)
    \/ \E d \in Dirs : Bloat(d)

RecoverySpec == RecoveryInit /\ [][RecoveryNext]_vars

\* Opens, remembers and searches of processes that hold their engine
\* handles across the recoveries of other processes: a memory file is
\* created, damaged and recovered while an earlier handle on it is in use.
\* No backup exists at the start.
HandlesInit ==
    /\ RecoveryInit
    /\ \A d \in Dirs : file[d] = NoFile /\ backups[d] = Empty

HandlesNext ==
    \/ \E p \in Procs, o \in Ops : Begin(p, o)
    \/ \E p \in Procs : LockAcquire(p)
    \/ \E p \in Procs : LockRetry(p)
    \/ \E p \in Procs : LockTimeout(p)
    \/ \E p \in Procs : OpenCreate(p)
    \/ \E p \in Procs : OpenOversize(p)
    \/ \E p \in Procs : OpenUse(p)
    \/ \E p \in Procs : OpenUseThrow(p)
    \/ \E p \in Procs : OpenCorrupt(p)
    \/ \E p \in Procs : PutBegin(p)
    \/ \E p \in Procs : PutEnd(p)
    \/ \E p \in Procs : Read(p)
    \/ \E p \in Procs : Release(p)
    \/ \E p \in Procs : PruneList(p)
    \/ \E p \in Procs : OpenReturn(p)
    \/ \E d \in Dirs : Corrupt(d)
    \/ \E d \in Dirs : Bloat(d)

HandlesSpec == HandlesInit /\ [][HandlesNext]_vars

\* A process dies while it holds a lock (inside the critical section or
\* before release() has run): its lock file stays, and nothing refreshes it.
\* At most one process dies in a run.
Crash(p) ==
    /\ pc[p] \in {"cs", "put", "release"}
    /\ \A q \in Procs : pc[q] # "dead"
    /\ pc' = [pc EXCEPT ![p] = "dead"]
    /\ UNCHANGED <<appVars, env, fsVars, histVars>>
    /\ UNCHANGED <<op, retries, memvid, mind, cur, buf, victims, pend>>

\* 30 seconds pass without a refresh of the lock file of a dead process:
\* the lock is stale.
Expire(d) ==
    /\ lock[d] \in Procs
    /\ pc[lock[d]] = "dead"
    /\ lock' = [lock EXCEPT ![d] = Stale]
    /\ UNCHANGED <<appVars, env, file, backups, now, nextIno, procVars, histVars>>

CrashNext ==
    \/ ContentionNext
    \/ \E p \in Procs : Crash(p)
    \/ \E d \in Dirs : Expire(d)

\* Time passes, and the retry timers of lockfile.lock fire.
CrashSpec ==
    /\ RecoveryInit /\ [][CrashNext]_vars
    /\ \A p \in Procs : WF_vars(LockAcquire(p) \/ LockRetry(p) \/ LockTimeout(p))
    /\ \A d \in Dirs : WF_vars(Expire(d))

\* ----------------------------------------------------------------- getMind
storeVars == <<env, fsVars, procVars, histVars>>

\* The handle Mind.open gives to its i-th invocation by getMind.
HandleOf(i) == i

\* getMind(config) is called with the memory path of directory d and finds
\* `!mindInstance`: it calls Mind.open(config) and suspends at the await.
GetMindOpen(c, d) ==
    /\ gm[c].pc # "opening"
    /\ Len(opened) < MaxCalls
    /\ mindInstance = 0
    /\ opened' = Append(opened, [by |-> c, state |-> "pending", dir |-> d])
    /\ gm' = [gm EXCEPT ![c] = [pc |-> "opening", got |-> Len(opened) + 1, dir |-> d]]
    /\ UNCHANGED <<storeVars, mindInstance, arg, ret>>

\* getMind(config) is called and finds mindInstance set: `return
\* mindInstance`; config is not read.
GetMindCached(c, d) ==
    /\ gm[c].pc # "opening"
    /\ mindInstance # 0
    /\ gm' = [gm EXCEPT ![c] = [pc |-> "returned", got |-> mindInstance, dir |-> d]]
    /\ UNCHANGED <<storeVars, mindInstance, opened, arg, ret>>

\* Mind.open resolves (it has created the memory file of its path if there
\* was none): `mindInstance = await Mind.open(config)` assigns the new Mind
\* and `return mindInstance` returns it in the same turn.
GetMindAssign(c) ==
    LET d == gm[c].dir IN
    /\ gm[c].pc = "opening"
    /\ mindInstance' = HandleOf(gm[c].got)
    /\ opened' = [opened EXCEPT ![gm[c].got].state = "resolved"]
    /\ gm' = [gm EXCEPT ![c].pc = "returned", ![c].got = HandleOf(gm[c].got)]
    /\ file' = IF existsSync(d) THEN file ELSE [file EXCEPT ![d] = create(d)]
    /\ nextIno' = IF existsSync(d) THEN nextIno ELSE nextIno + 1
    /\ UNCHANGED <<env, lock, backups, now, procVars, histVars, arg, ret>>

\* (variant: the handle is cached before Mind.open has settled, as in
\* `mindInstance = Mind.open(config)`, and stays cached when it rejects)
GetMindRejectCached(c) ==
    /\ gm[c].pc = "opening"
    /\ opened' = [opened EXCEPT ![gm[c].got].state = "rejected"]
    /\ mindInstance' = HandleOf(gm[c].got)
    /\ gm' = [gm EXCEPT ![c].pc = "rejected", ![c].got = 0]
    /\ UNCHANGED <<storeVars, arg, ret>>

\* Mind.open rejects (lock timeout, engine error): getMind rejects and
\* mindInstance is not assigned.
GetMindReject(c) ==
    /\ gm[c].pc = "opening"
    /\ opened' = [opened EXCEPT ![gm[c].got].state = "rejected"]
    /\ gm' = [gm EXCEPT ![c].pc = "rejected", ![c].got = 0]
    /\ UNCHANGED <<storeVars, mindInstance, arg, ret>>

\* The getMind calls of one process, in any interleaving of their turns.
SingletonInit == StoreIdle /\ AppIdle

SingletonNext ==
    \/ \E c \in Calls, d \in Dirs : GetMindOpen(c, d)
    \/ \E c \in Calls, d \in Dirs : GetMindCached(c, d)
    \/ \E c \in Calls : GetMindAssign(c)
    \/ \E c \in Calls : GetMindReject(c)

SingletonSpec == SingletonInit /\ [][SingletonNext]_vars

\* ------------------------------------------------------------ compression
\* A string is a sequence of pieces, each the characters from..to-1 of a
\* source text: "output" is the raw tool output, "digest" the text a
\* summarizer builds from it, "head" a header line, "marker" the truncation
\* marker.
Text(src, n) == IF n = 0 THEN <<>> ELSE <<[src |-> src, from |-> 0, to |-> n]>>

RECURSIVE length(_)
length(t) == IF t = <<>> THEN 0 ELSE (Head(t).to - Head(t).from) + length(Tail(t))

\* String.prototype.slice(0, n)
RECURSIVE slice(_, _)
slice(t, n) ==
    IF t = <<>> \/ n <= 0 THEN <<>>
    ELSE LET h == Head(t)
             l == h.to - h.from
         IN IF l <= n THEN <<h>> \o slice(Tail(t), n - l)
            ELSE <<[h EXCEPT !.to = h.from + n]>>

TARGET_COMPRESSED_SIZE == 2000
ThresholdAtTarget == TARGET_COMPRESSED_SIZE
COMPRESSION_THRESHOLD == 3000

\* "\n... (compressed)"
truncationMarker == Text("marker", 17)

truncateToTarget(text) ==
    IF length(text) <= TARGET_COMPRESSED_SIZE THEN text
    ELSE slice(text, TARGET_COMPRESSED_SIZE - 20) \o truncationMarker

\* The tool outputs and tool inputs of the runs.  An output is a string of
\* len characters in `lines` lines; `json` tells what JSON.parse makes of
\* it, `digest` is the length of the summary its tool's summarizer builds,
\* `words` are the words in it that the classifier looks for.  A tool input
\* gives the kind of the field its summarizer reads (file_path, command,
\* pattern).
Lens == {0, 1999, 2000, 2001, 3000, 3001, 6000}
LineCounts == {1, 30, 31}
Digests == {120, 2000, 2001, 3500}
JsonKinds == {"text", "filenames_list", "filenames_text"}
FieldKinds == {"absent", "string", "number"}
ToolNames == {"Read", "Bash", "Grep", "Glob", "Edit", "Write", "Task"}

OutputText(output) == Text("output", output.len)

\* `toolInput?.file_path || "unknown"` followed by a string method: a field
\* that is set and is no string has no such method (TypeError).
FieldThrows(toolInput) == toolInput.field = "number"

\* compressFileRead, compressBashOutput, compressGrepOutput
compressDigest(toolInput, output) ==
    IF FieldThrows(toolInput) THEN [threw |-> TRUE, text |-> <<>>]
    ELSE [threw |-> FALSE, text |-> Text("digest", output.digest)]

\* ---- compressBashOutput
\* A Bash output whose lines are spelled out: `bash` holds its lines, each
\* with its length and the markers it contains ("error": error, failed,
\* exception or warning; "success": success, passed, completed or done;
\* "both"; "none").
RECURSIVE sumLen(_)
sumLen(ls) == IF ls = <<>> THEN 0 ELSE Head(ls).len + sumLen(Tail(ls))

\* lines.join("\n") as one piece of text
joinLines(src, ls) == Text(src, sumLen(ls) + (IF ls = <<>> THEN 0 ELSE Len(ls) - 1))

\* lines.filter(...)
filterLines(ls, marks) == SelectSeq(ls, LAMBDA l : l.mark \in marks)

\* lines.slice(0, n) and lines.slice(-n)
firstLines(ls, n) == SubSeq(ls, 1, IF Len(ls) < n THEN Len(ls) ELSE n)
lastLines(ls, n) == SubSeq(ls, IF Len(ls) < n THEN 1 ELSE Len(ls) - n + 1, Len(ls))

\* the decimal digits of a count below 100
digits(n) == IF n < 10 THEN 1 ELSE 2

\* compressBashOutput: the command, the error lines (10 at most), the
\* success lines (5 at most), the line count, then the first 10 and last 5
\* lines or, up to 20 lines, the whole output; joined with "".
compressBashOutput(toolInput, output) ==
    LET lines == output.bash
        errorLines == filterLines(lines, {"error", "both"})
        successLines == filterLines(lines, {"success", "both"})
    IN
    IF FieldThrows(toolInput) THEN [threw |-> TRUE, text |-> <<>>]
    ELSE [threw |-> FALSE,
          text |->
            Text("command", 13 + (IF toolInput.field = "absent" THEN 7 ELSE 100))
            \o (IF errorLines # <<>>
                THEN Text("errorsHeader", 13 + digits(Len(errorLines)))
                     \o joinLines("errorLines", firstLines(errorLines, 10))
                ELSE <<>>)
            \o (IF successLines # <<>>
                THEN Text("successHeader", 22)
                     \o joinLines("successLines", firstLines(successLines, 5))
                ELSE <<>>)
            \o Text("lineCount", 24 + digits(Len(lines)))
            \o (IF Len(lines) > 20
                THEN Text("firstHeader", 23) \o joinLines("first", firstLines(lines, 10))
                     \o Text("lastHeader", 22) \o joinLines("last", lastLines(lines, 5))
                ELSE Text("fullHeader", 20) \o joinLines("full", lines))]

\* The Bash outputs of the runs: up to MaxBashLines lines spelled out,
\* followed by `filler` plain lines of 10 characters.
LineShapes == [len : {10, 1900, 3100}, mark : {"error", "success", "both", "none"}]
FillerLine == [len |-> 10, mark |-> "none"]
bashOutput(ls, filler) ==
    LET all == ls \o [i \in 1..filler |-> FillerLine] IN
    [len |-> sumLen(all) + Len(all) - 1, lines |-> Len(all), json |-> "text",
     digest |-> 0, words |-> <<>>, bash |-> all]
BashOutputs ==
    {bashOutput(ls, filler) :
        ls \in UNION {[1..n -> LineShapes] : n \in 1..MaxBashLines}, filler \in {0, 30}}

\* compressGlobOutput: JSON.parse(output).filenames, else the lines; then
\* files.forEach(...)
compressGlobOutput(toolInput, output) ==
    IF FieldThrows(toolInput) \/ output.json = "filenames_text"
    THEN [threw |-> TRUE, text |-> <<>>]
    ELSE [threw |-> FALSE, text |-> Text("digest", output.digest)]

\* compressEditOutput: two header lines, then output.slice(0, 500)
compressEditOutput(toolInput, output) ==
    IF FieldThrows(toolInput) THEN [threw |-> TRUE, text |-> <<>>]
    ELSE [threw |-> FALSE,
          text |-> Text("head", 44 + (IF toolInput.field = "absent" THEN 7 ELSE 8))
                     \o slice(OutputText(output), 500)]

\* compressGeneric: up to 30 lines are returned as they are
compressGeneric(output) ==
    IF output.lines <= 30 THEN [threw |-> FALSE, text |-> OutputText(output)]
    ELSE [threw |-> FALSE, text |-> Text("digest", output.digest)]

summarize(toolName, toolInput, output) ==
    CASE toolName = "Bash" /\ "bash" \in DOMAIN output -> compressBashOutput(toolInput, output)
      [] toolName \in {"Read", "Bash", "Grep"} -> compressDigest(toolInput, output)
      [] toolName = "Glob" -> compressGlobOutput(toolInput, output)
      [] toolName \in {"Edit", "Write"} -> compressEditOutput(toolInput, output)
      [] OTHER -> compressGeneric(output)

compressToolOutput(toolName, toolInput, output) ==
    LET originalSize == output.len IN
    IF originalSize <= COMPRESSION_THRESHOLD
    THEN [threw |-> FALSE, compressed |-> OutputText(output),
          wasCompressed |-> FALSE, originalSize |-> originalSize]
    ELSE LET summary == summarize(toolName, toolInput, output) IN
         IF summary.threw
         THEN [threw |-> TRUE, compressed |-> <<>>,
               wasCompressed |-> FALSE, originalSize |-> originalSize]
         ELSE [threw |-> FALSE, compressed |-> truncateToTarget(summary.text),
               wasCompressed |-> TRUE, originalSize |-> originalSize]

\* -------------------------------------------------------------- classifier
\* The classifier's strings are sequences of characters.
UpperChars ==
    <<"A", "B", "C", "D", "E", "F", "G", "H", "I", "J", "K", "L", "M", "N", "O", "P", "Q", "R", "S", "T", "U", "V", "W", "X", "Y", "Z">>
LowerChars ==
    <<"a", "b", "c", "d", "e", "f", "g", "h", "i", "j", "k", "l", "m", "n", "o", "p", "q", "r", "s", "t", "u", "v", "w", "x", "y", "z">>

lowerChar(c) ==
    IF \E i \in DOMAIN UpperChars : UpperChars[i] = c
    THEN LowerChars[CHOOSE i \in DOMAIN UpperChars : UpperChars[i] = c]
    ELSE c

\* String.prototype.toLowerCase
toLowerCaseNot(str) == str
toLowerCase(str) == [i \in DOMAIN str |-> lowerChar(str[i])]

\* String.prototype.includes
includes(str, m) ==
    \E i \in 0..(Len(str) - Len(m)) : SubSeq(str, i + 1, i + Len(m)) = m

\* The words that occur in the outputs of the runs, and the outputs: up to
\* MaxWords words with a blank between them.
Vocabulary ==
    {<<"e", "r", "r", "o", "r">>,
     <<"E", "R", "R", "O", "R">>,
     <<"E", "r", "r", "o", "r">>,
     <<"F", "a", "i", "l", "e", "d">>,
     <<"E", "X", "C", "E", "P", "T", "I", "O", "N">>,
     <<"s", "u", "c", "c", "e", "s", "s">>,
     <<"P", "a", "s", "s", "e", "d">>,
     <<"c", "o", "m", "p", "l", "e", "t", "e", "d">>,
     <<"w", "a", "r", "n", "i", "n", "g">>,
     <<"D", "e", "p", "r", "e", "c", "a", "t", "e", "d">>,
     <<"f", "i", "x">>,
     <<"b", "u", "g">>,
     <<"t", "e", "r", "r", "o", "r", "s">>,
     <<"o", "k">>}

RECURSIVE join(_)
join(ws) ==
    IF ws = <<>> THEN <<>>
    ELSE IF Len(ws) = 1 THEN Head(ws)
    ELSE Head(ws) \o <<" ">> \o join(Tail(ws))

WordLists == UNION {[1..n -> Vocabulary] : n \in 0..MaxWords}

\* (variant: the warning markers are tested before the success markers)
classifyObservationTypeWarningFirst(toolName, output) ==
    LET lowerOutput == toLowerCase(output) IN
    IF \/ includes(lowerOutput, <<"e", "r", "r", "o", "r">>)
       \/ includes(lowerOutput, <<"f", "a", "i", "l", "e", "d">>)
       \/ includes(lowerOutput, <<"e", "x", "c", "e", "p", "t", "i", "o", "n">>)
    THEN "problem"
    ELSE IF \/ includes(lowerOutput, <<"w", "a", "r", "n", "i", "n", "g">>)
            \/ includes(lowerOutput, <<"d", "e", "p", "r", "e", "c", "a", "t", "e", "d">>)
    THEN "warning"
    ELSE IF \/ includes(lowerOutput, <<"s", "u", "c", "c", "e", "s", "s">>)
            \/ includes(lowerOutput, <<"p", "a", "s", "s", "e", "d">>)
            \/ includes(lowerOutput, <<"c", "o", "m", "p", "l", "e", "t", "e", "d">>)
    THEN "success"
    ELSE CASE toolName \in {"Read", "Glob", "Grep"} -> "discovery"
           [] toolName = "Edit" ->
                IF includes(lowerOutput, <<"f", "i", "x">>) \/ includes(lowerOutput, <<"b", "u", "g">>)
                THEN "bugfix" ELSE "refactor"
           [] toolName = "Write" -> "feature"
           [] OTHER -> "discovery"

classifyObservationType(toolName, output) ==
    LET lowerOutput == toLowerCase(output) IN
    IF \/ includes(lowerOutput, <<"e", "r", "r", "o", "r">>)
       \/ includes(lowerOutput, <<"f", "a", "i", "l", "e", "d">>)
       \/ includes(lowerOutput, <<"e", "x", "c", "e", "p", "t", "i", "o", "n">>)
    THEN "problem"
    ELSE IF \/ includes(lowerOutput, <<"s", "u", "c", "c", "e", "s", "s">>)
            \/ includes(lowerOutput, <<"p", "a", "s", "s", "e", "d">>)
            \/ includes(lowerOutput, <<"c", "o", "m", "p", "l", "e", "t", "e", "d">>)
    THEN "success"
    ELSE IF \/ includes(lowerOutput, <<"w", "a", "r", "n", "i", "n", "g">>)
            \/ includes(lowerOutput, <<"d", "e", "p", "r", "e", "c", "a", "t", "e", "d">>)
    THEN "warning"
    ELSE CASE toolName \in {"Read", "Glob", "Grep"} -> "discovery"
           [] toolName = "Edit" ->
                IF includes(lowerOutput, <<"f", "i", "x">>) \/ includes(lowerOutput, <<"b", "u", "g">>)
                THEN "bugfix" ELSE "refactor"
           [] toolName = "Write" -> "feature"
           [] OTHER -> "discovery"

\* -------------------------------------------------------------- getContext
\* Math.ceil(text.length / 4)
estimateTokens(len) == (len + 3) \div 4

\* `[${obs.type}] ${obs.summary}`.length
contextLine(obs) == 1 + obs.type + 2 + obs.summary

\* (variant: `continue` in place of `break`)
RECURSIVE countTokensSkipping(_, _, _)
countTokensSkipping(observations, tokenCount, maxContextTokens) ==
    IF observations = <<>> THEN tokenCount
    ELSE LET tokens == estimateTokens(contextLine(Head(observations))) IN
         IF tokenCount + tokens > maxContextTokens
         THEN countTokensSkipping(Tail(observations), tokenCount, maxContextTokens)
         ELSE countTokensSkipping(Tail(observations), tokenCount + tokens, maxContextTokens)

\* The loop of getContext over recentObservations, from tokenCount on.
RECURSIVE countTokens(_, _, _)
countTokens(observations, tokenCount, maxContextTokens) ==
    IF observations = <<>> THEN tokenCount
    ELSE LET tokens == estimateTokens(contextLine(Head(observations))) IN
         IF tokenCount + tokens > maxContextTokens THEN tokenCount
         ELSE countTokens(Tail(observations), tokenCount + tokens, maxContextTokens)

\* this.memvid.timeline({ limit, reverse: true }) on a store whose frames,
\* newest first, are `frames`: the engine returns the first `limit` of them.
engineTimeline(frames, limit) ==
    SubSeq(frames, 1, IF Len(frames) < limit THEN Len(frames) ELSE limit)

\* Array.isArray(timeline) ? timeline : timeline.frames || []; shape: the
\* response is an array, an object with the array in `frames`, or an object
\* without `frames`.
timelineFrames(shape, timeline) == IF shape = "noframes" THEN <<>> ELSE timeline

\* The observations the loop of getContext counted into tokenCount.
RECURSIVE counted(_, _, _)
counted(observations, tokenCount, maxContextTokens) ==
    IF observations = <<>> THEN <<>>
    ELSE LET tokens == estimateTokens(contextLine(Head(observations))) IN
         IF tokenCount + tokens > maxContextTokens THEN <<>>
         ELSE <<Head(observations)>>
                 \o counted(Tail(observations), tokenCount + tokens, maxContextTokens)

\* `return { recentObservations, relevantMemories, sessionSummaries: [],
\* tokenCount }`: the list is returned whole.
\* (variant: the observations that fitted the budget are returned)
returnedObservationsCounted(recentObservations, maxContextTokens) ==
    counted(recentObservations, 0, maxContextTokens)
returnedObservations(recentObservations, maxContextTokens) == recentObservations

\* The observations of the timelines of the runs, by the lengths of their
\* type and summary, the token budgets, the values of
\* config.maxContextObservations and the shapes of the engine's response.
ObservationShapes ==
    {[type |-> 7, summary |-> 0], [type |-> 7, summary |-> 6],
     [type |-> 9, summary |-> 1], [type |-> 7, summary |-> 30]}
Timelines == UNION {[1..n -> ObservationShapes] : n \in 0..MaxTimeline}
TokenBudgets == {0, 2, 3, 5, 8, 10, 14, 2000}
ObservationLimits == {2, 20}
TimelineShapes == {"array", "object", "noframes"}

\* ---- getContext: timestamps
\* A JavaScript number n that is an integer is the pair hi, lo with
\* n = hi * 1000000 + lo and 0 <= lo < 1000000; `undefined` is Undefined.
Num(hi, lo) == [hi |-> hi, lo |-> lo]
Undefined == [undefined |-> TRUE]

\* a < b
less(a, b) == a.hi < b.hi \/ (a.hi = b.hi /\ a.lo < b.lo)

\* ts * 1e3
times1e3(ts) ==
    LET l == ts.lo * 1000 IN Num(ts.hi * 1000 + l \div 1000000, l % 1000000)

\* the value is truthy (neither undefined nor 0)
truthy(v) == v # Undefined /\ v # Num(0, 0)

\* frame.metadata?.timestamp
metadataTimestamp(frame) ==
    IF "timestamp" \in DOMAIN frame.metadata THEN frame.metadata["timestamp"] ELSE Undefined

\* let ts = frame.metadata?.timestamp || frame.timestamp || 0;
\* if (ts > 0 && ts < 4102444800) ts = ts * 1e3;
frameTimestamp(frame) ==
    LET ts == IF truthy(metadataTimestamp(frame)) THEN metadataTimestamp(frame)
              ELSE IF truthy(frame.timestamp) THEN frame.timestamp
              ELSE Num(0, 0)
    IN IF less(Num(0, 0), ts) /\ less(ts, Num(4102, 444800)) THEN times1e3(ts) ELSE ts

\* The timestamps of the runs: -1, 0, 1, a date of 2025 in seconds, the two
\* values around the threshold, the same date in milliseconds.
Timestamps ==
    {Num(-1, 999999), Num(0, 0), Num(0, 1), Num(1762, 300800),
     Num(4102, 444799), Num(4102, 444800), Num(1762300, 800000)}

\* What Date.now() returns at a remember call.
ClockValues == {Num(1762300, 800000), Num(1762300, 800001)}

\* ---------------------------------------------------------------- remember
\* Object spread: { ...a, ...b }; a key of b replaces the same key of a.
Spread(a, b) ==
    [k \in DOMAIN a \cup DOMAIN b |-> IF k \in DOMAIN b THEN b[k] ELSE a[k]]

NoKeys == [k \in {} |-> 0]
Key(k, v) == [x \in {k} |-> v]

\* (variant: the caller's metadata is spread after the store's sessionId)
observationMetadataCallerLast(sessionId, inputMetadata) ==
    Spread(Key("sessionId", sessionId), inputMetadata)

\* remember: metadata: { ...input.metadata, sessionId: this.sessionId }
observationMetadata(sessionId, inputMetadata) ==
    Spread(inputMetadata, Key("sessionId", sessionId))

\* remember: the metadata given to this.memvid.put:
\* { observationId, timestamp, tool, sessionId, ...observation.metadata }
putMetadata(sessionId, observation) ==
    Spread(Spread(Spread(Spread(Key("observationId", observation.id),
                                Key("timestamp", observation.timestamp)),
                         Key("tool", observation.tool)),
                  Key("sessionId", sessionId)),
           observation.metadata)

\* The metadata a caller passes: any of these keys, with values of its own
\* (input.metadata undefined spreads as no key at all).
MetadataKeys == {"observationId", "timestamp", "tool", "sessionId", "files"}
CallerValues == {1, 2}
CallerMetadata == UNION {[ks -> CallerValues] : ks \in SUBSET MetadataKeys}

\* ------------------------------------------------------ the calls under study
\* (variant: the handler observes every tool)
OBSERVED_TOOLS_All == ToolNames
OBSERVED_TOOLS == {"Read", "Edit", "Write", "Bash", "Grep", "Glob"}

Outputs ==
    [len : Lens, lines : LineCounts, json : JsonKinds, digest : Digests, words : {<<>>}]
CapturedOutputs ==
    [len : Lens, lines : {1}, json : {"text"}, digest : {120, 3500},
     words : {ws \in WordLists : Len(ws) <= 1}]

Jobs ==
    [kind : {"compress"}, toolName : ToolNames,
     toolInput : [field : FieldKinds], output : Outputs]
    \cup [kind : {"compress"}, toolName : {"Bash"},
          toolInput : [field : FieldKinds], output : BashOutputs]
    \cup [kind : {"classify"}, toolName : ToolNames, words : WordLists]
    \cup [kind : {"capture"}, toolName : ToolNames,
          toolInput : [field : FieldKinds], output : CapturedOutputs]
    \cup [kind : {"getContext"}, timeline : Timelines, maxContextTokens : TokenBudgets,
          maxContextObservations : ObservationLimits, shape : TimelineShapes]
    \cup [kind : {"remember"}, sessionId : {200}, id : {100, 101}, now : {50},
          tool : {0, 7}, metadata : CallerMetadata]
    \cup [kind : {"timestamp"}, via : {"frame"},
          metadata : {NoKeys} \cup {Key("timestamp", t) : t \in Timestamps},
          timestamp : Timestamps \cup {Undefined}]
    \cup [kind : {"timestamp"}, via : {"remember"}, now : ClockValues,
          metadata : {NoKeys, Key("files", Num(0, 2))}
                        \cup {Key("timestamp", t) :
                                 t \in {Num(1762, 300800), Num(1762300, 800000)}},
          timestamp : {Undefined, Num(1762, 300800)}]
    \cup UNION {[kind : {"prune"}, baseName : {b}, files : Listings(b),
                  readdirFails : BOOLEAN,
                  unlinkFails : {{}, {backupName(b, 1)}, {backupName(b, 2)}}] :
                    b \in BaseNames}

Compress ==
    /\ arg.kind = "compress" /\ ret.kind = "none"
    /\ ret' = [kind |-> "compress",
               result |-> compressToolOutput(arg.toolName, arg.toolInput, arg.output)]
    /\ UNCHANGED <<storeVars, mindInstance, gm, opened, arg>>

\* classifyObservationType is called, and called again on the same arguments.
Classify ==
    /\ arg.kind = "classify"
    /\ \/ /\ ret.kind = "none"
          /\ ret' = [kind |-> "classify",
                     types |-> <<classifyObservationType(arg.toolName, join(arg.words))>>]
       \/ /\ ret.kind = "classify" /\ Len(ret.types) = 1
          /\ ret' = [ret EXCEPT !.types =
                        Append(@, classifyObservationType(arg.toolName, join(arg.words)))]
    /\ UNCHANGED <<storeVars, mindInstance, gm, opened, arg>>

\* tool.execute.after: tools outside OBSERVED_TOOLS are skipped; the content
\* of the observation is compressToolOutput(...).compressed; an error of
\* getMind, of the compression or of remember is caught and nothing is
\* persisted.
ToolExecuteAfter ==
    /\ arg.kind = "capture" /\ ret.kind = "none"
    /\ LET c == compressToolOutput(arg.toolName, arg.toolInput, arg.output) IN
       \E stored \in BOOLEAN :
          ret' = IF arg.toolName \in OBSERVED_TOOLS /\ ~c.threw /\ stored
                 THEN [kind |-> "capture", persisted |-> TRUE,
                       type |-> classifyObservationType(arg.toolName, join(arg.output.words)),
                       content |-> c.compressed]
                 ELSE [kind |-> "capture", persisted |-> FALSE,
                       type |-> "none", content |-> <<>>]
    /\ UNCHANGED <<storeVars, mindInstance, gm, opened, arg>>

\* getContext() on a store whose frames, newest first, are arg.timeline:
\* the timeline is read, its frames are mapped to observations (a frame is
\* given by the lengths the mapping keeps), the tokens are counted.
GetContext ==
    /\ arg.kind = "getContext" /\ ret.kind = "none"
    /\ LET recentObservations ==
               timelineFrames(arg.shape,
                              engineTimeline(arg.timeline, arg.maxContextObservations))
       IN ret' = [kind |-> "getContext",
                  recentObservations |->
                      returnedObservations(recentObservations, arg.maxContextTokens),
                  sessionSummaries |-> <<>>,
                  tokenCount |-> countTokens(recentObservations, 0, arg.maxContextTokens)]
    /\ UNCHANGED <<storeVars, mindInstance, gm, opened, arg>>

\* remember: the observation is built and given to this.memvid.put;
\* getSessionId() is read before and after.
Remember ==
    /\ arg.kind = "remember" /\ ret.kind = "none"
    /\ LET observation == [id |-> arg.id, timestamp |-> arg.now, tool |-> arg.tool,
                           metadata |-> observationMetadata(arg.sessionId, arg.metadata)]
       IN ret' = [kind |-> "remember",
                  metadata |-> putMetadata(arg.sessionId, observation),
                  sessionIds |-> <<arg.sessionId, arg.sessionId>>]
    /\ UNCHANGED <<storeVars, mindInstance, gm, opened, arg>>

\* getContext maps a frame of the timeline to an observation; the frame is
\* given, or is the one a remember call at clock value `now` has stored
\* (frame.timestamp is the engine's own, if it has one).
GetContextTimestamp ==
    /\ arg.kind = "timestamp" /\ ret.kind = "none"
    /\ LET observation == [id |-> 100, timestamp |-> arg.now, tool |-> 0,
                           metadata |-> observationMetadata(200, arg.metadata)]
           frame == [metadata |-> IF arg.via = "remember"
                                  THEN putMetadata(200, observation)
                                  ELSE arg.metadata,
                     timestamp |-> arg.timestamp]
       IN ret' = [kind |-> "timestamp",
                  stored |-> metadataTimestamp(frame),
                  timestamp |-> frameTimestamp(frame)]
    /\ UNCHANGED <<storeVars, mindInstance, gm, opened, arg>>

\* pruneBackups(memoryPath, 3) on a directory listing: readdirSync may
\* throw (outer catch: nothing is pruned), unlinkSync may throw for some
\* names (inner catch: the loop goes on).  threw: pruneBackups threw.
Prune ==
    /\ arg.kind = "prune" /\ ret.kind = "none"
    /\ LET called == IF arg.readdirFails THEN <<>>
                     ELSE pruneBackupsFiles(arg.baseName, arg.files, keepCount)
       IN ret' = [kind |-> "prune", threw |-> FALSE,
                  unlinkCalls |-> called,
                  deleted |-> {called[i] : i \in {j \in DOMAIN called :
                                                      called[j] \notin arg.unlinkFails}}]
    /\ UNCHANGED <<storeVars, mindInstance, gm, opened, arg>>

FunctionsInit ==
    /\ StoreIdle
    /\ mindInstance = 0
    /\ gm = [c \in Calls |-> NoCall]
    /\ opened = <<>>
    /\ arg \in Jobs
    /\ ret = [kind |-> "none"]

FunctionsNext ==
    \/ Compress
    \/ Classify
    \/ ToolExecuteAfter
    \/ GetContext
    \/ Remember
    \/ GetContextTimestamp
    \/ Prune

FunctionsSpec == FunctionsInit /\ [][FunctionsNext]_vars

\* ------------------------------------------------- the OpenCode adapter
\* The handlers of the plugins OpenCodeBrain returns, called one after the
\* other in one process, each plugin for its own project directory
\* (memoryPath = resolve(projectDir, ".claude/mind.mv2")), and the
\* session-start hook of a project directory.  Each call is told which of
\* its steps fails, if any.

EventTypes == {"session.created", "session.idle", "message.updated"}

\* The steps of the handlers that can throw.
Steps == {"openLock", "open", "capture", "compress", "rememberLock", "put", "statSync"}

\* The steps that run inside a try block whose catch only logs
\* (tool.execute.after and session.idle: the whole body after the
\* OBSERVED_TOOLS test; buildSessionContext: statSync).
GuardedRememberOnly == {"rememberLock", "put", "statSync"}
Guarded == {"openLock", "open", "capture", "compress", "rememberLock", "put", "statSync"}

\* How a handler settles when step s threw ("none": nothing threw).
settles(s) == IF s = "none" \/ s \in Guarded THEN "resolved" ELSE "rejected"

\* What a handler has done, as its caller and the file system see it.
\* opens: calls of Mind.open; locks: locks acquired; puts: engine puts.
Quiet == [settled |-> "resolved", value |-> "undefined",
          opens |-> 0, locks |-> 0, puts |-> 0]

\* getMind({ memoryPath }) called by the plugin of directory d when step
\* `fail` fails: the handle that is already there, or Mind.open on d's
\* memory file (created when absent), whose handle becomes mindInstance.
PluginGetMind(d, fail) ==
    IF mindInstance # 0
    THEN [threw |-> "none", mind |-> mindInstance, opens |-> 0, locks |-> 0,
          file |-> file, created |-> FALSE, opened |-> opened]
    ELSE IF fail = "openLock"
    THEN [threw |-> fail, mind |-> 0, opens |-> 1, locks |-> 0,
          file |-> file, created |-> FALSE, opened |-> opened]
    ELSE IF fail = "open"
    THEN [threw |-> fail, mind |-> 0, opens |-> 1, locks |-> 1,
          file |-> file, created |-> FALSE, opened |-> opened]
    ELSE LET f == IF existsSync(d) THEN file ELSE [file EXCEPT ![d] = create(d)] IN
         [threw |-> "none", mind |-> Len(opened) + 1, opens |-> 1, locks |-> 1,
          file |-> f, created |-> ~existsSync(d),
          opened |-> Append(opened, [by |-> "plugin", state |-> "resolved",
                                     dir |-> d, ino |-> f[d].ino])]

\* mind.remember(...) on the handle g.mind when step `fail` fails: one put,
\* under the lock, into the memory file the handle was opened on.
PluginRemember(g, fail, n) ==
    LET d == g.opened[g.mind].dir IN
    IF fail = "rememberLock"
    THEN [threw |-> fail, locks |-> 0, puts |-> 0, file |-> g.file]
    ELSE IF fail = "put"
    THEN [threw |-> fail, locks |-> 1, puts |-> 0, file |-> g.file]
    ELSE [threw |-> "none", locks |-> 1, puts |-> 1,
          file |-> [g.file EXCEPT ![d].frames = Append(@, [by |-> "plugin", n |-> n])]]

\* getMind and then remember, as tool.execute.after and session.idle do;
\* `between` is the step between the two that throws ("none": none does),
\* `skip`: the handler returns before remember without an error.
PluginCapture(d, fail, between, skip, n) ==
    LET g == PluginGetMind(d, fail) IN
    IF g.threw # "none"
    THEN [settled |-> settles(g.threw), value |-> "undefined", opens |-> g.opens,
          locks |-> g.locks, puts |-> 0, file |-> g.file, created |-> g.created,
          opened |-> g.opened, mind |-> g.mind]
    ELSE IF between # "none" \/ skip
    THEN [settled |-> settles(between), value |-> "undefined", opens |-> g.opens,
          locks |-> g.locks, puts |-> 0, file |-> g.file, created |-> g.created,
          opened |-> g.opened, mind |-> g.mind]
    ELSE LET r == PluginRemember(g, fail, n) IN
         [settled |-> settles(r.threw), value |-> "undefined", opens |-> g.opens,
          locks |-> g.locks + r.locks, puts |-> r.puts, file |-> r.file,
          created |-> g.created, opened |-> g.opened, mind |-> g.mind]

\* buildSessionContext(memoryPath, projectDir)
buildSessionContext(d, fail) ==
    IF existsSync(d) /\ fail # "statSync" THEN "Active" ELSE "Ready"

\* tool.execute.after of the plugin of directory d, for a tool and a tool
\* output of the given length.
PluginToolExecuteAfter(d, tool, output, fail) ==
    /\ opsBegun < MaxEvents
    /\ fail \in {"none", "openLock", "open", "compress", "rememberLock", "put"}
    /\ fail = "compress" => output.len > COMPRESSION_THRESHOLD
    /\ opsBegun' = opsBegun + 1
    /\ arg' = [kind |-> "tool.execute.after", dir |-> d, tool |-> tool, fail |-> fail]
    /\ IF tool \notin OBSERVED_TOOLS
       THEN /\ ret' = [Quiet EXCEPT !.settled = settles("none")]
            /\ UNCHANGED <<file, nextIno, mindInstance, opened>>
       ELSE LET c == PluginCapture(d, fail, IF fail = "compress" THEN fail ELSE "none",
                                   FALSE, opsBegun + 1)
            IN /\ ret' = [settled |-> c.settled, value |-> c.value, opens |-> c.opens,
                          locks |-> c.locks, puts |-> c.puts]
               /\ file' = c.file
               /\ nextIno' = IF c.created THEN nextIno + 1 ELSE nextIno
               /\ opened' = c.opened
               /\ mindInstance' = c.mind
    /\ UNCHANGED <<env, lock, backups, now, procVars, gm>>
    /\ UNCHANGED <<call, err, damage, allBackups, done, faults>>

\* event of the plugin of directory d; files: how many changed files
\* captureFileChanges found (a failure inside it counts as none found).
PluginEvent(d, type, files, fail) ==
    /\ opsBegun < MaxEvents
    /\ fail \in {"none", "openLock", "open", "capture", "rememberLock", "put", "statSync"}
    /\ fail = "capture" => files = 0
    /\ opsBegun' = opsBegun + 1
    /\ arg' = [kind |-> "event", dir |-> d, type |-> type, files |-> files, fail |-> fail]
    /\ IF type = "session.created"
       THEN /\ ret' = [Quiet EXCEPT !.settled = settles("none"),
                                    !.value = buildSessionContext(d, fail)]
            /\ UNCHANGED <<file, nextIno, mindInstance, opened>>
       ELSE IF type = "session.idle"
       THEN LET c == PluginCapture(d, fail, "none", files = 0, opsBegun + 1)
            IN /\ ret' = [settled |-> c.settled, value |-> c.value, opens |-> c.opens,
                          locks |-> c.locks, puts |-> c.puts]
               /\ file' = c.file
               /\ nextIno' = IF c.created THEN nextIno + 1 ELSE nextIno
               /\ opened' = c.opened
               /\ mindInstance' = c.mind
       ELSE /\ ret' = [Quiet EXCEPT !.settled = settles("none")]
            /\ UNCHANGED <<file, nextIno, mindInstance, opened>>
    /\ UNCHANGED <<env, lock, backups, now, procVars, gm>>
    /\ UNCHANGED <<call, err, damage, allBackups, done, faults>>

\* The session-start hook: main() of hooks/session-start.  input: what
\* stdin holds ("unreadable": readStdin rejects; "unparsable": JSON.parse
\* throws; else the cwd of the hook input, Unset when it has none).  The
\* result is what writeOutput was called with, in order.
(* variant: the catch block logs and writes nothing *)
mainCatchSilent(input, fail) ==
    IF input \in {"unreadable", "unparsable"} THEN <<>>
    ELSE LET projectDir == IF input # Unset THEN input ELSE OpenPath("p1")
             contextLines == IF existsSync(projectDir)
                             THEN (IF fail = "statSync" THEN "none" ELSE "Active")
                             ELSE "Ready"
         IN <<[continue |-> TRUE, additionalContext |-> contextLines]>>
main(input, fail) ==
    IF input \in {"unreadable", "unparsable"}
    THEN <<[continue |-> TRUE, additionalContext |-> "none"]>>
    ELSE LET projectDir == IF input # Unset THEN input ELSE OpenPath("p1")
             contextLines == IF existsSync(projectDir)
                             THEN (IF fail = "statSync" THEN "none" ELSE "Active")
                             ELSE "Ready"
         IN <<[continue |-> TRUE, additionalContext |-> contextLines]>>

SessionStartHook(input, fail) ==
    /\ opsBegun < MaxEvents
    /\ fail \in {"none", "statSync"}
    /\ opsBegun' = opsBegun + 1
    /\ arg' = [kind |-> "session-start", input |-> input, fail |-> fail]
    /\ ret' = [Quiet EXCEPT !.value = main(input, fail)]
    /\ UNCHANGED <<env, fsVars, procVars, mindInstance, gm, opened>>
    /\ UNCHANGED <<call, err, damage, allBackups, done, faults>>

PluginInit == StoreIdle /\ AppIdle

PluginNext ==
    \/ \E d \in Dirs, tool \in ToolNames, len \in {120, 3001}, fail \in Steps \cup {"none"} :
          PluginToolExecuteAfter(d, tool, [len |-> len], fail)
    \/ \E d \in Dirs, type \in EventTypes, files \in {0, 2}, fail \in Steps \cup {"none"} :
          PluginEvent(d, type, files, fail)
    \/ \E input \in Dirs \cup {Unset, "unreadable", "unparsable"}, fail \in {"none", "statSync"} :
          SessionStartHook(input, fail)

PluginSpec == PluginInit /\ [][PluginNext]_vars

\* ------------------------------------------------------------------ claims
InCriticalSection(p) == pc[p] \in {"cs", "put"}
InWithLock(p) == pc[p] \in {"lock", "cs", "put", "release"}
Range(f) == {f[i] : i \in DOMAIN f}

\* C1: at no instant are two critical sections executing on the same memory
\* file (every operation of a process works on the file Mind.open resolved).
C1_MutualExclusion ==
    \A p, q \in Procs :
        (p # q /\ InCriticalSection(p) /\ InCriticalSection(q))
            => OpenPath(p) # OpenPath(q)

\* C2: a lock is held only by a process inside withMemvidLock on that lock
\* file, so once the call has settled (returned or thrown) the lock is free,
\* and a lock file no call is working on is free; an error thrown by the
\* critical section is what the caller gets.
C2_ReleasedOnEveryExit ==
    /\ \A d \in Dirs :
        (\A p \in Procs : ~(InWithLock(p) /\ LockPath(p) = d)) => lock[d] = NoProc
    /\ \A p \in Procs : ~InWithLock(p) => \A d \in Dirs : lock[d] # p
    /\ \A p \in Procs :
        (pc[p] = "idle" /\ pend[p] = "throw") => err[p] = "EngineError"

\* C2 witness: a critical section threw, the call has settled with the
\* error, and the lock it held is free.
C2_Witness ==
    \E p \in Procs :
        /\ pc[p] = "idle" /\ pend[p] = "throw" /\ err[p] = "EngineError"
        /\ call[p].runs = 1
        /\ lock[LockPath(p)] = NoProc

\* C3: a call that acquired the lock has called fn() exactly once, whatever
\* the number of retries; a call still waiting has not called it.
C3_RunsExactlyOnce ==
    \A p \in Procs :
        /\ call[p].runs <= 1
        /\ pc[p] = "lock" => call[p].runs = 0
        /\ pc[p] \in {"cs", "put", "release", "prune", "unlink"} => call[p].runs = 1
        /\ (pc[p] = "idle" /\ err[p] \in {"ok", "EngineError"}) => call[p].runs = 1

\* C3 witness: a call that had to retry has acquired the lock and returned.
C3_Witness ==
    \E p \in Procs :
        /\ pc[p] = "idle" /\ err[p] = "ok"
        /\ retries[p] >= 1 /\ call[p].runs = 1

\* C4: a call never waits for the lock forever, also when the holder never
\* releases it: it uses at most MaxRetries retries and then rejects with the
\* lock error, and a call that was rejected has never called fn() and has
\* not touched the memory file.
C4_BoundedWait ==
    /\ [](\A p \in Procs :
            /\ retries[p] <= MaxRetries
            /\ (pc[p] = "idle" /\ err[p] = "LockTimeout") =>
                  /\ retries[p] = MaxRetries
                  /\ call[p] = [NewCall EXCEPT !.locks = 1])
    /\ \A p \in Procs : (pc[p] = "lock") ~> (pc[p] # "lock")

\* C4 witness: a call was rejected after using every retry.
C4_Witness ==
    \E p \in Procs :
        /\ pc[p] = "idle" /\ err[p] = "LockTimeout"
        /\ retries[p] = MaxRetries /\ ~call[p].mutated

\* C5: a memory file changes only in a step of a process that holds the lock
\* of that file's path (or when the environment damages it).
C5_MutationUnderLock ==
    [][\A d \in Dirs :
         (file'[d] # file[d] /\ damage' = damage)
             => \E p \in Procs : pc'[p] # pc[p] /\ lock[d] = p]_vars

\* stats(): totalObservations = stats.frame_count of the store at the path
totalObservations(d) == Len(file[d].frames)

\* C6: with no operation in progress (and no damage to the file), the store
\* of a path holds as many observations as remember calls on it returned.
C6_NoLostWrite ==
    ((\A p \in Procs : pc[p] = "idle") /\ damage = 0)
        => \A d \in Dirs :
              totalObservations(d) = Cardinality({o \in done : OpenPath(o.by) = d})

\* C7: when a search reads the store, no other process is in the middle of a
\* write to it, and every observation whose remember has returned on that
\* path is in it.
C7_ReadYourWrites ==
    [][\A p \in Procs :
         (pc[p] = "cs" /\ op[p] \in ReadOps /\ pc'[p] = "release" /\ damage = 0)
             => /\ \A q \in Procs \ {p} :
                      ~(pc[q] = "put" /\ OpenPath(q) = OpenPath(p))
                /\ \A o \in done :
                      OpenPath(o.by) = OpenPath(p)
                          => o \in Range(HandleContent(OpenPath(p), mind[p]).frames)]_vars

\* An empty store the engine can use.
IsFreshStore(f) == f.ino # 0 /\ f.good /\ ~f.big /\ f.frames = <<>>

\* The step of Mind.open's locked section in which process p recovers from a
\* corruption-signature error of use().
CorruptionRecovery(p) ==
    pc[p] = "cs" /\ op[p] = "open" /\ call'[p].recov = "corrupt"

\* Once the recovery has run, the open does not throw.
RecoveredOpenReturns(kind) ==
    \A p \in Procs :
        call[p].recov = kind
            => /\ pend[p] = "ok"
               /\ pc[p] \in {"release", "prune", "unlink", "idle"}
               /\ pc[p] = "idle" => err[p] = "ok"

\* C8 as stated: every corruption recovery leaves a backup holding the old
\* bytes and a fresh empty usable store at the path, and the open does not
\* throw.
C8_BackupOnCorruption ==
    [][\A p \in Procs :
         CorruptionRecovery(p)
             => LET d == OpenPath(p) IN
                /\ \E t \in DOMAIN backups'[d] : backups'[d][t] = file[d]
                /\ IsFreshStore(file'[d])
                /\ memvid'[p] = file'[d].ino]_vars

\* C8: a corruption recovery leaves a fresh empty usable store at the path
\* and the open does not throw; the backup <path>.backup-<Date.now()> holding
\* the old bytes exists when the rename succeeded, and when it failed no
\* backup is made.
C8_BackupWhenRenamed ==
    /\ [](RecoveredOpenReturns("corrupt"))
    /\ [][\A p \in Procs :
            CorruptionRecovery(p)
                => LET d == OpenPath(p) IN
                   /\ IsFreshStore(file'[d])
                   /\ memvid'[p] = file'[d].ino
                   /\ IF call'[p].renamed
                      THEN /\ now' \in DOMAIN backups'[d]
                           /\ backups'[d][now'] = file[d]
                      ELSE backups' = backups]_vars

\* C8 witness: an open that recovered from corruption by renaming has
\* returned; the backup with the corrupted bytes and the fresh store exist.
C8_Witness ==
    \E p \in Procs :
        /\ pc[p] = "idle" /\ op[p] = "open" /\ err[p] = "ok"
        /\ call[p].recov = "corrupt" /\ call[p].renamed
        /\ \E t \in DOMAIN backups[OpenPath(p)] :
              /\ backups[OpenPath(p)][t].ino # 0
              /\ ~backups[OpenPath(p)][t].good
        /\ IsFreshStore(file[OpenPath(p)])

\* C9: the locked section of an open that finds a file larger than 100 MB
\* takes the backup-and-recreate path: it never calls use(), it renames to
\* <path>.backup-<Date.now()> (a failure of the rename is ignored), it
\* creates a fresh store, and the open does not throw.
C9_OversizeRecreates ==
    /\ [](RecoveredOpenReturns("oversize"))
    /\ [](\A p \in Procs : call[p].recov = "oversize" => ~call[p].used)
    /\ [][\A p \in Procs :
            (pc[p] = "cs" /\ op[p] = "open" /\ pc'[p] # "cs"
               /\ file[OpenPath(p)].ino # 0 /\ file[OpenPath(p)].big)
                => LET d == OpenPath(p) IN
                   /\ call'[p].recov = "oversize"
                   /\ ~call'[p].used
                   /\ IsFreshStore(file'[d])
                   /\ memvid'[p] = file'[d].ino
                   /\ IF call'[p].renamed
                      THEN /\ now' \in DOMAIN backups'[d]
                           /\ backups'[d][now'] = file[d]
                      ELSE backups' = backups]_vars

\* C9 witness: an open that found an oversized file has returned without
\* calling use(), with the oversized file in a backup.
C9_Witness ==
    \E p \in Procs :
        /\ pc[p] = "idle" /\ op[p] = "open" /\ err[p] = "ok"
        /\ call[p].recov = "oversize" /\ call[p].renamed /\ ~call[p].used
        /\ \E t \in DOMAIN backups[OpenPath(p)] : backups[OpenPath(p)][t].big

\* The n largest elements of a set of timestamps.
keepNewest(S, n) == {x \in S : Cardinality({y \in S : y > x}) < n}

\* The backups of d are at most keepCount and are the most recent of all the
\* backups ever made of d.
NewestBackupsOnly(bk, all) ==
    /\ Cardinality(bk) <= keepCount
    /\ bk = keepNewest(all, keepCount)

C11_RethrowLeavesState ==
    /\ [](\A p \in Procs :
            (op[p] = "open" /\ pend[p] = "throw")
                => /\ pc[p] \in {"release", "idle"}
                   /\ call[p].recov = "none" /\ ~call[p].mutated
                   /\ pc[p] = "idle" => (err[p] = "EngineError" /\ lock[OpenPath(p)] # p))
    /\ [][\A p \in Procs :
            (op[p] = "open" /\ pend'[p] = "throw" /\ pc'[p] # pc[p])
                => /\ file' = file /\ backups' = backups
                   /\ mind'[p] = mind[p]]_vars

\* C11 witness: an open has rejected with the engine's error, the memory
\* file is still there, and the lock is free.
C11_Witness ==
    \E p \in Procs :
        /\ pc[p] = "idle" /\ op[p] = "open" /\ pend[p] = "throw"
        /\ err[p] = "EngineError" /\ call[p].used
        /\ existsSync(OpenPath(p))
        /\ lock[OpenPath(p)] = NoProc

\* C12: with opens of several processes overlapping on a path, create is
\* called only by an open that finds no file in its locked section; once
\* the file is there no step replaces it, every open that enters its locked
\* section opens it with use(), and no backup is made.
C12_CreateOnce ==
    /\ [][\A d \in Dirs :
            file[d].ino # 0 => (file'[d].ino = file[d].ino /\ backups'[d] = backups[d])]_vars
    /\ [][\A p \in Procs :
            (pc[p] = "cs" /\ op[p] = "open" /\ pc'[p] = "release")
                => LET d == OpenPath(p) IN
                   /\ backups' = backups
                   /\ IF file[d].ino # 0
                      THEN call'[p].used /\ ~call'[p].mutated /\ file' = file
                      ELSE ~call'[p].used /\ call'[p].mutated
                           /\ IsFreshStore(file'[d])]_vars

\* C12 witness: two opens overlapped on a path without a file (one waited
\* for the lock); the first created the file, the other opened it with
\* use(), and there is no backup.
C12_Witness ==
    \E p, q \in Procs :
        /\ p # q /\ OpenPath(p) = OpenPath(q)
        /\ pc[p] = "idle" /\ op[p] = "open" /\ err[p] = "ok"
        /\ pc[q] = "idle" /\ op[q] = "open" /\ err[q] = "ok"
        /\ call[p].mutated /\ ~call[p].used
        /\ call[q].used /\ ~call[q].mutated /\ retries[q] >= 1
        /\ opsBegun = 2
        /\ backups[OpenPath(p)] = Empty

\* C13: in one process, whatever the interleaving of the getMind calls,
\* Mind.open is invoked once (an invocation that rejected aside) and every
\* caller that got a handle got the same one.
C13_OneOpenOneHandle ==
    /\ Cardinality({i \in DOMAIN opened : opened[i].state # "rejected"}) <= 1
    /\ \A c, e \in Calls :
          (gm[c].pc = "returned" /\ gm[e].pc = "returned") => gm[c].got = gm[e].got

\* C14: for every tool name and tool input, an output of at most 3000
\* characters comes back as it is: compressed is the output, wasCompressed
\* is false and originalSize is the output's length.
C14_SmallOutputUnchanged ==
    (ret.kind = "compress" /\ arg.output.len <= 3000)
        => /\ ~ret.result.threw
           /\ ret.result.compressed = OutputText(arg.output)
           /\ ~ret.result.wasCompressed
           /\ ret.result.originalSize = arg.output.len

\* C14 witness: compressToolOutput has returned an output of exactly 3000
\* characters uncompressed.
C14_Witness ==
    /\ ret.kind = "compress" /\ arg.output.len = 3000
    /\ ~ret.result.wasCompressed
    /\ length(ret.result.compressed) = 3000

\* C15: for every tool name and tool input, an output of more than 3000
\* characters gives wasCompressed = true and at most 2000 characters: the
\* first 1980 characters of the summarizer's result and the marker when that
\* result is longer than 2000, else the summarizer's result.
C15_LargeOutputBounded ==
    (ret.kind = "compress" /\ arg.output.len > 3000)
        => LET summary == summarize(arg.toolName, arg.toolInput, arg.output).text IN
           /\ ~ret.result.threw
           /\ ret.result.wasCompressed
           /\ length(ret.result.compressed) <= 2000
           /\ ret.result.compressed =
                 IF length(summary) > 2000
                 THEN slice(summary, 1980) \o truncationMarker
                 ELSE summary

\* C16: every observation the tool-capture path persists has a content of
\* at most 2000 characters, whatever the length of the tool output.
C16_CapturedContentBounded ==
    (ret.kind = "capture" /\ ret.persisted) => length(ret.content) <= 2000

\* The character c is the letter l in either case.
IsLetter(c, l) ==
    \E i \in DOMAIN LowerChars : LowerChars[i] = l /\ c \in {LowerChars[i], UpperChars[i]}

\* The word occurs in str, each letter in either case.
ContainsAnyCase(str, word) ==
    \E i \in 0..(Len(str) - Len(word)) :
        \A j \in 1..Len(word) : IsLetter(str[i + j], word[j])

HasErrorMarker(str) ==
    \/ ContainsAnyCase(str, <<"e", "r", "r", "o", "r">>)
    \/ ContainsAnyCase(str, <<"f", "a", "i", "l", "e", "d">>)
    \/ ContainsAnyCase(str, <<"e", "x", "c", "e", "p", "t", "i", "o", "n">>)

\* C17: classifyObservationType gives the same type when it is called again
\* with the same tool name and output, and for every tool name an output
\* that contains "error", "failed" or "exception" in any letter case is
\* classified as problem.
C17_ClassifyDeterministic ==
    ret.kind = "classify"
        => /\ \A i, j \in DOMAIN ret.types : ret.types[i] = ret.types[j]
           /\ HasErrorMarker(join(arg.words)) => ret.types[1] = "problem"

\* C17 witness: an Edit whose output holds a success marker and then an
\* upper-case error marker was classified twice, as problem both times.
C17_Witness ==
    /\ ret.kind = "classify" /\ arg.toolName = "Edit"
    /\ arg.words = << <<"s", "u", "c", "c", "e", "s", "s">>,
                      <<"E", "X", "C", "E", "P", "T", "I", "O", "N">> >>
    /\ ret.types = <<"problem", "problem">>

\* ceil(n / 4)
CeilQuarter(n) == CHOOSE k \in 0..n : 4 * k >= n /\ 4 * k < n + 4

\* The tokens of the first n observations of a timeline.
RECURSIVE PrefixTokens(_, _)
PrefixTokens(observations, n) ==
    IF n = 0 THEN 0
    ELSE PrefixTokens(observations, n - 1)
            + CeilQuarter(1 + observations[n].type + 2 + observations[n].summary)

\* The length of the longest prefix of a timeline that fits the budget.
LongestFit(observations, budget) ==
    CHOOSE n \in 0..Len(observations) :
        /\ PrefixTokens(observations, n) <= budget
        /\ \A m \in (n + 1)..Len(observations) : PrefixTokens(observations, m) > budget

\* C18: for every timeline and every budget maxContextTokens (a natural
\* number), the tokenCount of getContext is at most the budget and is the
\* sum of ceil(length / 4) over the "[type] summary" strings of the longest
\* prefix of the recent observations that fits: the first observation that
\* would overflow and every one after it count for nothing.
C18_TokenBudget ==
    ret.kind = "getContext"
        => /\ ret.tokenCount <= arg.maxContextTokens
           /\ ret.tokenCount =
                PrefixTokens(ret.recentObservations,
                             LongestFit(ret.recentObservations, arg.maxContextTokens))

\* C18 witness: the second observation overflowed the budget, the third
\* alone would have fitted, and only the first was counted.
C18_Witness ==
    /\ ret.kind = "getContext" /\ arg.maxContextTokens = 8
    /\ arg.timeline = <<[type |-> 7, summary |-> 0],
                        [type |-> 7, summary |-> 30],
                        [type |-> 7, summary |-> 0]>>
    /\ ret.tokenCount = 3

\* C19: the metadata remember persists carries the session id of the handle
\* that wrote it, whatever metadata the caller passes (a sessionId key of
\* its own included), and getSessionId gives the same value before and
\* after the call.
C19_SessionIdOfHandle ==
    ret.kind = "remember"
        => /\ "sessionId" \in DOMAIN ret.metadata
           /\ ret.metadata["sessionId"] = arg.sessionId
           /\ \A i \in DOMAIN ret.sessionIds : ret.sessionIds[i] = arg.sessionId

\* C19 witness: the caller passed a sessionId of its own (and other keys)
\* and the handle's session id was persisted.
C19_Witness ==
    /\ ret.kind = "remember"
    /\ {"sessionId", "files"} \subseteq DOMAIN arg.metadata
    /\ arg.metadata["sessionId"] # arg.sessionId
    /\ ret.metadata["sessionId"] = arg.sessionId
    /\ ret.metadata["files"] = arg.metadata["files"]

\* C20: the timestamp and the observation id remember persists in the
\* engine metadata are the ones the Store generated at the call, whatever
\* keys the caller's metadata contains.
C20_StoreAssignedFields ==
    ret.kind = "remember"
        => /\ ret.metadata["timestamp"] = arg.now
           /\ ret.metadata["observationId"] = arg.id

\* C21: a remember call that returned has made exactly one engine put, made
\* while the call held the lock, and has returned the identifier that put
\* returned; a remember call rejected for the lock has made no put.
C21_OnePutInsideLock ==
    \A p \in Procs :
        /\ call[p].puts <= 1
        /\ pc[p] = "put" => lock[LockPath(p)] = p
        /\ (op[p] = "remember" /\ pc[p] = "idle" /\ err[p] = "ok")
              => /\ call[p].puts = 1
                 /\ call[p].frameId >= 1
                 /\ call[p].result = call[p].frameId
        /\ (op[p] = "remember" /\ pc[p] = "idle" /\ err[p] = "LockTimeout")
              => call[p].puts = 0 /\ call[p].result = 0

\* C21 witness: a remember that had to retry for the lock has returned the
\* identifier of its one put, and another process's remember was rejected
\* for the lock without a put.
C21_Witness ==
    \E p, q \in Procs :
        /\ op[p] = "remember" /\ pc[p] = "idle" /\ err[p] = "ok"
        /\ call[p].puts = 1 /\ call[p].result >= 1
        /\ op[q] = "remember" /\ pc[q] = "idle" /\ err[q] = "LockTimeout"
        /\ call[q].puts = 0

\* C22: the handlers tool.execute.after and event of the OpenCode adapter
\* never reject: whichever step fails (getMind's open or its lock, the
\* compression, the file-change capture, remember's lock or put, statSync),
\* the handler resolves.
C22_HandlersNeverReject ==
    arg.kind \in {"tool.execute.after", "event"} => ret.settled = "resolved"

\* C22 witness: session.idle resolved although Mind.open could not get the
\* lock, and no handle was kept.
C22_Witness ==
    /\ arg.kind = "event" /\ arg.type = "session.idle" /\ arg.fail = "openLock"
    /\ ret.settled = "resolved" /\ ret.opens = 1 /\ ret.locks = 0
    /\ mindInstance = 0

\* C23: for a tool outside {Read, Edit, Write, Bash, Grep, Glob},
\* tool.execute.after returns undefined and changes nothing: no Mind.open,
\* no lock, no put, no memory file created, no handle kept.
C23_UnobservedToolSkipped ==
    [][(/\ opsBegun' # opsBegun
        /\ arg'.kind = "tool.execute.after"
        /\ arg'.tool \notin {"Read", "Edit", "Write", "Bash", "Grep", "Glob"})
          => /\ ret'.settled = "resolved" /\ ret'.value = "undefined"
             /\ ret'.opens = 0 /\ ret'.locks = 0 /\ ret'.puts = 0
             /\ file' = file /\ lock' = lock /\ backups' = backups
             /\ mindInstance' = mindInstance /\ opened' = opened]_vars

\* C23 witness: tool.execute.after has returned for the tool Task and there
\* is still no handle and no memory file in the plugin's directory.
C23_Witness ==
    /\ arg.kind = "tool.execute.after" /\ arg.tool = "Task"
    /\ ret.value = "undefined" /\ ret.opens = 0
    /\ mindInstance = 0 /\ ~existsSync(arg.dir)

\* C24: once tool.execute.after of the plugin of directory D has completed
\* for an observed tool (no step having failed), a memory file exists in D,
\* also when plugins of other directories were used before in the process.
C24_MemoryFileInOwnDirectory ==
    (/\ arg.kind = "tool.execute.after"
     /\ arg.tool \in {"Read", "Edit", "Write", "Bash", "Grep", "Glob"}
     /\ arg.fail = "none")
        => file[arg.dir].ino # 0

\* C25: the session-start hook writes one output, with continue = true, on
\* every path (input valid, unreadable or unparsable; memory file present,
\* absent, or statSync failing), and opens no store, takes no lock and
\* leaves every file as it is.
C25_SessionStartContinues ==
    [][(opsBegun' # opsBegun /\ arg'.kind = "session-start")
          => /\ Len(ret'.value) = 1
             /\ ret'.value[1].continue = TRUE
             /\ ret'.opens = 0 /\ ret'.locks = 0 /\ ret'.puts = 0
             /\ file' = file /\ lock' = lock /\ backups' = backups
             /\ mindInstance' = mindInstance /\ opened' = opened]_vars

\* C25 witness: with a memory file in the project directory, the hook got
\* unparsable input and wrote continue = true.
C25_Witness ==
    /\ arg.kind = "session-start" /\ arg.input = "unparsable"
    /\ file["proj"].ino # 0
    /\ ret.value = <<[continue |-> TRUE, additionalContext |-> "none"]>>

\* The piece of text `src` is in t whole (n characters of it).
ContainsWhole(t, src, n) ==
    \E i \in DOMAIN t : t[i].src = src /\ t[i].from = 0 /\ t[i].to = n

\* C26: for every Bash output of more than 3000 characters with at least
\* one error-marker line and at least one success-marker line, the result
\* of compressToolOutput contains the Errors section header, the Success
\* indicators header and the total line count, and is at most 2000
\* characters long.
C26_BashSections ==
    (/\ ret.kind = "compress" /\ arg.toolName = "Bash"
     /\ "bash" \in DOMAIN arg.output
     /\ arg.output.len > 3000
     /\ \E i \in DOMAIN arg.output.bash : arg.output.bash[i].mark \in {"error", "both"}
     /\ \E i \in DOMAIN arg.output.bash : arg.output.bash[i].mark \in {"success", "both"})
        => LET errors == Len(SelectSeq(arg.output.bash, LAMBDA l : l.mark \in {"error", "both"}))
               result == ret.result.compressed
           IN /\ ~ret.result.threw
              /\ length(result) <= 2000
              /\ ContainsWhole(result, "errorsHeader", 13 + digits(errors))
              /\ ContainsWhole(result, "successHeader", 22)
              /\ ContainsWhole(result, "lineCount", 24 + digits(arg.output.lines))

\* C27: once a recovery has created a backup, no step of any process
\* changes it (also not a put through an engine handle that was opened on
\* the memory file before the rename): from one state to the next a backup
\* keeps its content or is deleted.
C27_BackupsWriteOnce ==
    [][\A d \in Dirs : \A t \in DOMAIN backups[d] :
          t \in DOMAIN backups'[d] => backups'[d][t] = backups[d][t]]_vars

\* C28: a lock whose holder died does not stay held forever: it becomes
\* stale, a call of a live process that is waiting for a stale lock takes
\* it over and runs its critical section, and an operation begun when the
\* lock is stale gets it at once.
C28_StaleLockTakenOver ==
    /\ \A d \in Dirs :
          (lock[d] \in Procs /\ pc[lock[d]] = "dead") ~> (lock[d] \notin Procs \/ pc[lock[d]] # "dead")
    /\ \A p \in Procs :
          (pc[p] = "lock" /\ lock[LockPath(p)] = Stale) ~> (pc[p] = "cs" /\ call[p].runs = 1)
    /\ [][\A p \in Procs :
            (pc[p] = "idle" /\ pc'[p] # "idle" /\ lock[LockPath(p)'] = Stale)
                => (pc'[p] = "cs" /\ lock'[LockPath(p)'] = p)]_vars

\* C28 witness: a process died holding the lock, and a live process that had
\* to wait for it is now in its critical section on the same path.
C28_Witness ==
    \E p, q \in Procs :
        /\ pc[q] = "dead" /\ LockPath(q) = LockPath(p)
        /\ pc[p] = "cs" /\ retries[p] >= 1 /\ call[p].runs = 1
        /\ lock[LockPath(p)] = p

HasSuccessMarker(str) ==
    \/ ContainsAnyCase(str, <<"s", "u", "c", "c", "e", "s", "s">>)
    \/ ContainsAnyCase(str, <<"p", "a", "s", "s", "e", "d">>)
    \/ ContainsAnyCase(str, <<"c", "o", "m", "p", "l", "e", "t", "e", "d">>)

HasWarningMarker(str) ==
    \/ ContainsAnyCase(str, <<"w", "a", "r", "n", "i", "n", "g">>)
    \/ ContainsAnyCase(str, <<"d", "e", "p", "r", "e", "c", "a", "t", "e", "d">>)

MentionsFixOrBug(str) ==
    ContainsAnyCase(str, <<"f", "i", "x">>) \/ ContainsAnyCase(str, <<"b", "u", "g">>)

\* The type of an output without marker.
ToolDefault(toolName, str) ==
    IF toolName \in {"Read", "Glob", "Grep"} THEN "discovery"
    ELSE IF toolName = "Edit" THEN (IF MentionsFixOrBug(str) THEN "bugfix" ELSE "refactor")
    ELSE IF toolName = "Write" THEN "feature"
    ELSE "discovery"

\* C29: classifyObservationType tests in a fixed order: problem markers,
\* then success markers, then warning markers, then the tool default (Read,
\* Glob, Grep: discovery; Edit: bugfix when it mentions fix or bug, else
\* refactor; Write: feature; any other tool: discovery).
C29_ClassifierOrder ==
    ret.kind = "classify"
        => LET str == join(arg.words) IN
           ret.types[1] =
              IF HasErrorMarker(str) THEN "problem"
              ELSE IF HasSuccessMarker(str) THEN "success"
              ELSE IF HasWarningMarker(str) THEN "warning"
              ELSE ToolDefault(arg.toolName, str)

\* C29 witness: a Write whose output holds a warning marker and then a
\* success marker was classified as success.
C29_Witness ==
    /\ ret.kind = "classify" /\ arg.toolName = "Write"
    /\ arg.words = << <<"D", "e", "p", "r", "e", "c", "a", "t", "e", "d">>,
                      <<"P", "a", "s", "s", "e", "d">> >>
    /\ ret.types[1] = "success"

\* k times the number ts, by repeated addition.
RECURSIVE TimesBy(_, _)
TimesBy(ts, k) ==
    IF k = 0 THEN [hi |-> 0, lo |-> 0]
    ELSE LET r == TimesBy(ts, k - 1)
             l == r.lo + ts.lo
         IN [hi |-> r.hi + ts.hi + l \div 1000000, lo |-> l % 1000000]

\* The timestamp getContext has to return for a frame timestamp ts.
Normalized(ts) ==
    IF /\ (ts.hi > 0 \/ (ts.hi = 0 /\ ts.lo > 0))
       /\ (ts.hi < 4102 \/ (ts.hi = 4102 /\ ts.lo < 444800))
    THEN TimesBy(TimesBy(TimesBy(ts, 10), 10), 10) ELSE ts

\* C30: getContext returns a frame timestamp ts with 0 < ts < 4102444800 as
\* ts * 1000 and every other value unchanged; hence the timestamp remember
\* stored for an observation is returned exactly as stored.
C30_TimestampNormalized ==
    ret.kind = "timestamp"
        => /\ (arg.via = "frame" /\ "timestamp" \in DOMAIN arg.metadata
                 /\ arg.metadata["timestamp"] # [hi |-> 0, lo |-> 0])
              => ret.timestamp = Normalized(arg.metadata["timestamp"])
           /\ arg.via = "remember" => ret.timestamp = ret.stored

\* The files named <baseName>.backup-<digits>, and the epoch in such a name.
IsBackupName(baseName, f) ==
    LET n == Len(baseName) + Len(backupSuffix) IN
    /\ Len(f) > n
    /\ SubSeq(f, 1, n) = baseName \o backupSuffix
    /\ \A i \in (n + 1)..Len(f) : isDigit(f[i])

Epoch(f) == parseInt(lastSegment(f))

\* C31: pruneBackups(path, 3) calls unlink only on files of the directory
\* named <basename>.backup-<digits>, never on the memory file, its lock
\* sidecar or one of the 3 backups with the greatest epoch; it never throws,
\* and when the listing succeeds every older backup whose unlink does not
\* fail is deleted, whichever other unlink fails.
C31_PrunesOnlyOldBackups ==
    ret.kind = "prune"
        => LET own == {f \in arg.files : IsBackupName(arg.baseName, f)}
               newest == {f \in own :
                            Cardinality({g \in own : Epoch(g) > Epoch(f)}) < 3}
               old == own \ newest
           IN /\ ret.threw = FALSE
              /\ \A i \in DOMAIN ret.unlinkCalls : ret.unlinkCalls[i] \in old
              /\ ~arg.readdirFails => (old \ arg.unlinkFails) \subseteq ret.deleted

\* C32: search, ask, getContext and stats run their engine calls while the
\* process holds the lock of the handle's memory path (getMemoryPath()), and
\* no step of such a call changes a memory file or a backup, calls put or
\* create, renames or deletes: the observation count is the same before and
\* after.
C32_ReadsLeaveStoreUnchanged ==
    /\ [](\A p \in Procs :
            (pc[p] \in {"cs", "put"} /\ op[p] \in {"search", "ask", "getContext", "stats"})
                => lock[getMemoryPath(p)] = p)
    /\ [][\A p \in Procs :
            (pc'[p] # pc[p] /\ op'[p] \in {"search", "ask", "getContext", "stats"})
                => /\ file' = file /\ backups' = backups
                   /\ call'[p].puts = 0 /\ ~call'[p].mutated]_vars

\* C32 witness: stats has returned on a store that holds an observation.
C32_Witness ==
    \E p \in Procs :
        /\ pc[p] = "idle" /\ op[p] = "stats" /\ err[p] = "ok"
        /\ call[p].runs = 1
        /\ Len(file[OpenPath(p)].frames) > 0

\* C33: in every environment and for every configuration, the lock an
\* operation of a handle holds during its critical section is the lock the
\* open that produced the handle took: the sidecar of the memory file that
\* open opened.
C33_SameLockFile ==
    \A p \in Procs :
        (pc[p] \in {"cs", "put", "release"} /\ op[p] # "open")
            => lock[OpenPath(p)] = p

\* C34: once getMind has cached a handle, the cached handle never changes,
\* and a getMind call made from then on returns it whatever memory path its
\* config names: it calls no Mind.open and creates no file.
C34_CachedHandleForEveryPath ==
    /\ [][mindInstance # 0 => mindInstance' = mindInstance]_vars
    /\ [][\A c \in Calls :
            (mindInstance # 0 /\ gm[c].pc # "opening" /\ gm'[c] # gm[c])
                => /\ gm'[c].pc = "returned" /\ gm'[c].got = mindInstance
                   /\ opened' = opened /\ file' = file]_vars

\* C35: a Mind.open that rejects inside getMind caches nothing: the step
\* leaves mindInstance as it was, a cached handle is always one of a
\* Mind.open that resolved, and a getMind call that finds mindInstance empty
\* (also after a rejection) calls Mind.open again.
C35_FailedOpenNotCached ==
    /\ [](mindInstance # 0 => opened[mindInstance].state = "resolved")
    /\ [][\A c \in Calls :
            (gm[c].pc = "opening" /\ gm'[c].pc = "rejected")
                => mindInstance' = mindInstance]_vars
    /\ [][\A c \in Calls :
            (mindInstance = 0 /\ gm[c].pc # "opening" /\ gm'[c] # gm[c])
                => /\ gm'[c].pc = "opening"
                   /\ Len(opened') = Len(opened) + 1]_vars

\* C35 witness: the first Mind.open rejected, and a getMind call made after
\* that has opened, cached and returned a handle.
C35_Witness ==
    /\ Len(opened) = 2
    /\ opened[1].state = "rejected" /\ opened[2].state = "resolved"
    /\ mindInstance = HandleOf(2)
    /\ \E c \in Calls : gm[c].pc = "returned" /\ gm[c].got = HandleOf(2)

\* C36: no operation calls lockfile.lock while its process holds that lock;
\* an operation calls it once, and one that has entered its locked section
\* has entered it once.  (getContext is called with a query.)
C36_NoNestedLock ==
    \A p \in Procs :
        /\ call[p].nested = 0
        /\ op[p] # "none" => call[p].locks = 1
        /\ pc[p] \in {"cs", "put", "release", "prune", "unlink"} => call[p].runs = 1
        /\ (pc[p] = "idle" /\ err[p] = "ok" /\ op[p] # "none") => call[p].runs = 1

\* C36 witness: getContext has run its timeline and its search and returned,
\* on a store that holds an observation.
C36_Witness ==
    \E p \in Procs :
        /\ pc[p] = "idle" /\ op[p] = "getContext" /\ err[p] = "ok"
        /\ call[p].runs = 1 /\ call[p].locks = 1
        /\ Len(file[OpenPath(p)].frames) > 0

\* C37 as stated: whenever Mind.open calls create on the memory path no
\* file is at that path: on every recovery path the old file has been
\* renamed or deleted before.
C37_CreateOnEmptyPath ==
    \A p \in Procs : ~call[p].existed

\* C37: Mind.open calls create on a path that holds a file only in a
\* recovery whose renameSync failed and, on the corruption path, whose
\* unlinkSync failed too; after a rename or an unlink that succeeded, and
\* when open found no file, create is called on an empty path.
C37_CreateOnEmptyPathUnlessKept ==
    \A p \in Procs :
        call[p].existed
            => /\ call[p].recov \in {"oversize", "corrupt"}
               /\ ~call[p].renamed /\ ~call[p].unlinked

\* C37 witness: a corruption recovery whose rename failed has deleted the
\* old file, called create on the empty path and returned.
C37_Witness ==
    \E p \in Procs :
        /\ pc[p] = "idle" /\ op[p] = "open" /\ err[p] = "ok"
        /\ call[p].recov = "corrupt" /\ call[p].unlinked /\ ~call[p].existed

\* C38: getContext returns in recentObservations every frame the engine's
\* timeline delivers (the newest maxContextObservations of the store), in
\* order, whatever the token budget, and sessionSummaries is empty.
C38_AllObservationsReturned ==
    ret.kind = "getContext"
        => LET n == IF arg.shape = "noframes" THEN 0
                    ELSE IF Len(arg.timeline) < arg.maxContextObservations
                    THEN Len(arg.timeline) ELSE arg.maxContextObservations
           IN /\ ret.sessionSummaries = <<>>
              /\ Len(ret.recentObservations) = n
              /\ \A i \in 1..n : ret.recentObservations[i] = arg.timeline[i]

\* C38 witness: of three observations the second overflowed the budget;
\* one was counted and all three were returned.
C38_Witness ==
    /\ ret.kind = "getContext" /\ arg.maxContextTokens = 8
    /\ arg.timeline = <<[type |-> 7, summary |-> 0],
                        [type |-> 7, summary |-> 30],
                        [type |-> 7, summary |-> 6]>>
    /\ ret.tokenCount = 3
    /\ Len(ret.recentObservations) = 3

\* C39: the frames of a memory file are, in the order remember committed
\* them, in the order of their timestamps, and what stats returns has
\* oldestMemory <= newestMemory.
C39_CommitOrderIsTimestampOrder ==
    /\ \A d \in Dirs : \A i, j \in 1..Len(file[d].frames) :
           i < j => file[d].frames[i].timestamp <= file[d].frames[j].timestamp
    /\ \A p \in Procs : call[p].oldestMemory <= call[p].newestMemory
====
